---- MODULE Spec2Model ----
(***************************************************************************)
(* A model of the find/replace upload service in "src/Python api/app.py": *)
(* the /upload request handler (upload_file), its delayed cleanup          *)
(* (remove_files) and the four replacers it dispatches to.                 *)
(*                                                                         *)
(* Text is modelled as a sequence of one-character strings, so that the    *)
(* Python string operations (strip, lower, replace, splitext, "in") are    *)
(* computed character by character, as the interpreter computes them.      *)
(***************************************************************************)
EXTENDS Integers, Sequences, FiniteSets, TLC

\* ------------------------------------------------------------------ text

UpperChars == <<"A","B","C","D","E","F","G","H","I","J","K","L","M",
                "N","O","P","Q","R","S","T","U","V","W","X","Y","Z">>
LowerChars == <<"a","b","c","d","e","f","g","h","i","j","k","l","m",
                "n","o","p","q","r","s","t","u","v","w","x","y","z">>
DigitChars == <<"0","1","2","3","4","5","6","7","8","9">>

Range(f) == {f[i] : i \in DOMAIN f}

\* str.lower() on one character, then on a string
LowerChar(c) ==
    IF \E i \in DOMAIN UpperChars : UpperChars[i] = c
    THEN LowerChars[CHOOSE i \in DOMAIN UpperChars : UpperChars[i] = c]
    ELSE c

StrLower(s) == [i \in 1..Len(s) |-> LowerChar(s[i])]

\* A character that a string of this module cannot spell is written by its
\* code point, "U+000B" for the vertical tab.
\* The characters for which str.isspace() is true: what strip() strips and
\* split() splits on
AsciiSpaces == {" ", "\t", "\n", "\r", "\f", "U+000B",
                "U+001C", "U+001D", "U+001E", "U+001F"}
UnicodeSpaces == {"U+0085", "U+00A0", "U+1680", "U+2000", "U+2001", "U+2002",
                  "U+2003", "U+2004", "U+2005", "U+2006", "U+2007", "U+2008",
                  "U+2009", "U+200A", "U+2028", "U+2029", "U+202F", "U+205F",
                  "U+3000"}

IsSpace(c) == c \in AsciiSpaces \cup UnicodeSpaces

\* str.strip(): leading and trailing whitespace removed
RECURSIVE LStrip(_)
LStrip(s) == IF s # <<>> /\ IsSpace(Head(s)) THEN LStrip(Tail(s)) ELSE s

RECURSIVE RStrip(_)
RStrip(s) ==
    IF s # <<>> /\ IsSpace(s[Len(s)]) THEN RStrip(SubSeq(s, 1, Len(s) - 1)) ELSE s

StrStrip(s) == RStrip(LStrip(s))

\* does sub occur in s at position i (1-based)?
OccursAt(s, sub, i) ==
    /\ i >= 1
    /\ i + Len(sub) - 1 <= Len(s)
    /\ \A k \in 1..Len(sub) : s[i + k - 1] = sub[k]

\* Python's "sub in s"
StrContains(s, sub) == \E i \in 1..(Len(s) + 1) : OccursAt(s, sub, i)

\* str.find(sub, start): the lowest index >= start where sub occurs, 0 if none
StrFind(s, sub, start) ==
    IF \E i \in start..(Len(s) + 1) : OccursAt(s, sub, i)
    THEN CHOOSE i \in start..(Len(s) + 1) :
            /\ OccursAt(s, sub, i)
            /\ \A j \in start..(i - 1) : ~OccursAt(s, sub, j)
    ELSE 0

\* Faulty variant: a replace that stops after the first occurrence, as
\* str.replace(old, new, 1) would.
ReplaceOnlyFirstFrom(s, old, new, start) ==
    LET i == StrFind(s, old, start)
    IN  IF old = <<>> \/ i = 0 THEN s
        ELSE SubSeq(s, 1, i - 1) \o new \o SubSeq(s, i + Len(old), Len(s))

\* str.replace(old, new) scanning from position start: every non-overlapping
\* occurrence, leftmost first.  An empty old matches before every character
\* and at the end, as in CPython.
RECURSIVE StrReplaceFrom(_, _, _, _)
StrReplaceFrom(s, old, new, start) ==
    IF old = <<>>
    THEN IF start > Len(s) THEN new
         ELSE new \o <<s[start]>> \o StrReplaceFrom(s, old, new, start + 1)
    ELSE LET i == StrFind(s, old, start)
         IN  IF i = 0 THEN SubSeq(s, start, Len(s))
             ELSE SubSeq(s, start, i - 1) \o new
                    \o StrReplaceFrom(s, old, new, i + Len(old))

StrReplace(s, old, new) == StrReplaceFrom(s, old, new, 1)

\* ------------------------------------------------------- literal strings

S_pdf  == <<".", "p", "d", "f">>
S_csv  == <<".", "c", "s", "v">>
S_xml  == <<".", "x", "m", "l">>
S_xpt  == <<".", "x", "p", "t">>
S_modified == <<"_", "m", "o", "d", "i", "f", "i", "e", "d">>
S_modified_ == <<"m", "o", "d", "i", "f", "i", "e", "d", "_">>

\* UPLOAD_FOLDER = 'uploads'
UPLOAD_FOLDER == <<"u", "p", "l", "o", "a", "d", "s">>

\* Python's None and pandas' NaN: values that are no string.  Each is a
\* one-element sequence whose element is not a single character, so it
\* differs from every text.
\* A number (a float cell of a data frame) is its digits behind such a tag.
None == <<"<None>">>
NaN  == <<"<NaN>">>
Num(digits) == <<"<float>">> \o digits
IsStr(x) == \A i \in 1..Len(x) : x[i] \notin {"<None>", "<NaN>", "<float>"}

\* -------------------------------------------------------------- CSV

\* The strings pandas.read_csv turns into NaN (its default na_values, with
\* keep_default_na=True), dtype=str notwithstanding.
NaValues ==
    { <<>>,
      <<"#","N","/","A">>, <<"#","N","/","A"," ","N","/","A">>, <<"#","N","A">>,
      <<"-","1",".","#","I","N","D">>, <<"-","1",".","#","Q","N","A","N">>,
      <<"-","N","a","N">>, <<"-","n","a","n">>,
      <<"1",".","#","I","N","D">>, <<"1",".","#","Q","N","A","N">>,
      <<"<","N","A",">">>, <<"N","/","A">>, <<"N","A">>,
      <<"N","U","L","L">>, <<"N","a","N">>, <<"N","o","n","e">>,
      <<"n","/","a">>, <<"n","a","n">>, <<"n","u","l","l">> }

\* A CSV file is its header row and its data rows, each cell the text
\* between the separators (quoting is the reader's and the writer's affair).
CsvFile(header, rows) == [kind |-> "csv", header |-> header, rows |-> rows]

\* str(n) for a natural number
RECURSIVE DigitsOf(_)
DigitsOf(n) ==
    IF n < 10 THEN <<DigitChars[n + 1]>>
    ELSE DigitsOf(n \div 10) \o <<DigitChars[(n % 10) + 1]>>

\* read_csv names a column whose header cell is empty "Unnamed: <i>", i its
\* position counted from 0
S_Unnamed == <<"U", "n", "n", "a", "m", "e", "d", ":", " ">>
NameUnnamed(header) ==
    [i \in 1..Len(header) |->
        IF header[i] = <<>> THEN S_Unnamed \o DigitsOf(i - 1) ELSE header[i]]

\* the order in which read_csv (pandas 2) makes the names unique: the
\* columns the file names first, the unnamed ones after them, so that a
\* name of the file is kept and the name made up gives way
ColLoopOrder(header) ==
    LET cols == [i \in 1..Len(header) |-> i]
    IN  SelectSeq(cols, LAMBDA i : header[i] # <<>>)
        \o SelectSeq(cols, LAMBDA i : header[i] = <<>>)

\* counts: how often a name was met or handed out; counts.get(col, 0) and
\* counts[col] = n
CountOf(counts, col) == IF col \in DOMAIN counts THEN counts[col] ELSE 0
SetCount(counts, col, n) ==
    [x \in DOMAIN counts \cup {col} |-> IF x = col THEN n ELSE counts[x]]

\* the loop "while cur_count > 0" for a name met before: the candidate is
\* "<old_col>.<cur_count>"; one that is a name of the header already is
\* passed over with the next number, any other is looked up in counts in
\* turn.  The candidate the loop ends with, and counts as the loop leaves it
RECURSIVE DedupName(_, _, _, _, _)
DedupName(old_col, col, cur_count, this_header, counts) ==
    IF cur_count = 0 THEN [col |-> col, counts |-> counts]
    ELSE LET bumped == SetCount(counts, old_col, cur_count + 1)
             candidate == old_col \o <<".">> \o DigitsOf(cur_count)
         IN  IF candidate \in Range(this_header)
             THEN DedupName(old_col, candidate, cur_count + 1, this_header, bumped)
             ELSE DedupName(old_col, candidate, CountOf(bumped, candidate),
                            this_header, bumped)

\* the loop over the columns in that order: this_header[i] = col and
\* counts[col] = cur_count + 1, cur_count being 0 when the loop above ends
RECURSIVE DedupNames(_, _, _)
DedupNames(this_header, order, counts) ==
    IF order = <<>> THEN this_header
    ELSE LET i == Head(order)
             d == DedupName(this_header[i], this_header[i],
                            CountOf(counts, this_header[i]), this_header, counts)
         IN  DedupNames([this_header EXCEPT ![i] = d.col], Tail(order),
                        SetCount(d.counts, d.col, 1))

\* the column names read_csv gives a header row
ColumnNames(header) == DedupNames(NameUnnamed(header), ColLoopOrder(header), <<>>)

\* Faulty variant: read_csv without dtype=str, which infers numbers, so that
\* a cell of digits is no str either.
ReadCsvInferNumeric(file) ==
    [columns |-> ColumnNames(file.header),
     data |-> [r \in 1..Len(file.rows) |->
                 [c \in 1..Len(file.rows[r]) |->
                    LET x == file.rows[r][c]
                    IN  IF x \in NaValues
                           \/ (x # <<>> /\ \A i \in 1..Len(x) : x[i] \in Range(DigitChars))
                        THEN NaN ELSE x]]]

\* pd.read_csv(path, dtype=str): the first row names the columns, an empty
\* name filled in and a repeated name numbered; every other cell is a str
\* unless it is a null marker, which becomes NaN.
ReadCsv(file) ==
    [columns |-> ColumnNames(file.header),
     data |-> [r \in 1..Len(file.rows) |->
                 [c \in 1..Len(file.rows[r]) |->
                    IF file.rows[r][c] \in NaValues THEN NaN ELSE file.rows[r][c]]]]

\* Faulty variant: the replacement applied to the column names as well.
ApplyMapHeaderToo(df, old_text, new_text) ==
    [columns |-> [c \in 1..Len(df.columns) |-> StrReplace(df.columns[c], old_text, new_text)],
     data |-> [r \in 1..Len(df.data) |->
                 [c \in 1..Len(df.data[r]) |->
                    IF IsStr(df.data[r][c])
                    THEN StrReplace(df.data[r][c], old_text, new_text)
                    ELSE df.data[r][c]]]]

\* df.applymap(lambda x: x.replace(old_text, new_text) if isinstance(x, str) else x)
ApplyMapReplace(df, old_text, new_text) ==
    [columns |-> df.columns,
     data |-> [r \in 1..Len(df.data) |->
                 [c \in 1..Len(df.data[r]) |->
                    IF IsStr(df.data[r][c])
                    THEN StrReplace(df.data[r][c], old_text, new_text)
                    ELSE df.data[r][c]]]]

\* df.to_csv(path, index=False): the column names, then every row, NaN
\* written as the empty string (na_rep='').
ToCsv(df) ==
    CsvFile(df.columns,
            [r \in 1..Len(df.data) |->
               [c \in 1..Len(df.data[r]) |->
                  IF df.data[r][c] = NaN THEN <<>> ELSE df.data[r][c]]])

\* replace_text_in_csv, on the file's content: what it writes to output_path
ReplaceTextInCsv(file, old_text, new_text) ==
    ToCsv(ApplyMapReplace(ReadCsv(file), old_text, new_text))

\* -------------------------------------------------------------- XML

\* An XML document is its element tree: nodes[e] for the element numbered e,
\* the root numbered 1.  text and tail are a string or None; attrib is the
\* attribute dictionary in insertion order, a sequence of <<name, value>>;
\* children are the numbers of the child elements in document order.
\* declaration says whether the file starts with <?xml ...?>.
XmlFile(declaration, nodes) ==
    [kind |-> "xml", declaration |-> declaration, nodes |-> nodes]

Elem(tag, text, tail, attrib, children) ==
    [tag |-> tag, text |-> text, tail |-> tail, attrib |-> attrib,
     children |-> children]

\* "elem.text and old_text in elem.text": None and '' are falsy
Truthy(x) == x # None /\ x # <<>>

\* lines 78-84: the element's own text, tail and attribute values
ReplaceInOwnFields(elem, old_text, new_text) ==
    [elem EXCEPT
       !.text = IF Truthy(elem.text) /\ StrContains(elem.text, old_text)
                THEN StrReplace(elem.text, old_text, new_text) ELSE elem.text,
       !.tail = IF Truthy(elem.tail) /\ StrContains(elem.tail, old_text)
                THEN StrReplace(elem.tail, old_text, new_text) ELSE elem.tail,
       !.attrib = [i \in 1..Len(elem.attrib) |->
                     IF StrContains(elem.attrib[i][2], old_text)
                     THEN <<elem.attrib[i][1],
                            StrReplace(elem.attrib[i][2], old_text, new_text)>>
                     ELSE elem.attrib[i]]]

\* replace_in_element(elem), lines 77-86.  st = [nodes, visited]: the tree so
\* far and the elements replace_in_element has been called on, in call order.
RECURSIVE ReplaceInElement(_, _, _, _)
RECURSIVE ReplaceInChildren(_, _, _, _, _)

\* Faulty variant: the children are handled in place of a recursive call, so
\* nothing below them is reached.
ReplaceInElementNoRecursion(st, e, old_text, new_text) ==
    LET st1 == [nodes |-> [st.nodes EXCEPT
                             ![e] = ReplaceInOwnFields(st.nodes[e], old_text, new_text)],
                visited |-> Append(st.visited, e)]
        kids == st.nodes[e].children
    IN  [nodes |-> [n \in DOMAIN st1.nodes |->
                      IF \E i \in 1..Len(kids) : kids[i] = n
                      THEN ReplaceInOwnFields(st1.nodes[n], old_text, new_text)
                      ELSE st1.nodes[n]],
         visited |-> st1.visited \o kids]

ReplaceInElement(st, e, old_text, new_text) ==
    LET st1 == [nodes |-> [st.nodes EXCEPT
                             ![e] = ReplaceInOwnFields(st.nodes[e], old_text, new_text)],
                visited |-> Append(st.visited, e)]
    IN  ReplaceInChildren(st1, st.nodes[e].children, 1, old_text, new_text)

\* "for child in elem: replace_in_element(child)", from the i-th child on
ReplaceInChildren(st, kids, i, old_text, new_text) ==
    IF i > Len(kids) THEN st
    ELSE ReplaceInChildren(ReplaceInElement(st, kids[i], old_text, new_text),
                           kids, i + 1, old_text, new_text)

\* ET.parse(path): the element tree (the declaration is not part of it)
XmlParse(file) == file.nodes

\* replace_in_element(root) on the parsed tree: [nodes, visited]
XmlWalk(file, old_text, new_text) ==
    ReplaceInElement([nodes |-> XmlParse(file), visited |-> <<>>], 1,
                     old_text, new_text)

\* tree.write(output_path, encoding="utf-8", xml_declaration=True)
XmlWrite(nodes) == XmlFile(TRUE, nodes)

\* replace_text_in_xml, on the file's content: what it writes to output_path
ReplaceTextInXml(file, old_text, new_text) ==
    XmlWrite(XmlWalk(file, old_text, new_text).nodes)

\* -------------------------------------------------------------- XPT

\* A SAS transport file: its format version (5 or 8), the table name, the
\* variable names and labels, and the rows of values (a string, a number
\* or NaN for a missing number).
XptFile(version, table_name, columns, labels, data) ==
    [kind |-> "xpt", version |-> version, table_name |-> table_name,
     columns |-> columns, labels |-> labels, data |-> data]

\* pyreadstat.read_xport(path): (df, meta)
ReadXport(file) ==
    [df |-> [columns |-> file.columns, data |-> file.data],
     meta |-> [table_name |-> file.table_name,
               column_names |-> file.columns,
               column_labels |-> file.labels,
               file_format_version |-> file.version]]

\* file_format_version=8, line 100
XPT_WRITE_VERSION == 8

\* pyreadstat.write_xport(df, path, file_format_version=, table_name=):
\* column_labels is not passed, so every variable is written without a label
WriteXport(df, file_format_version, table_name) ==
    XptFile(file_format_version, table_name, df.columns,
            [c \in 1..Len(df.columns) |-> None], df.data)

\* replace_text_in_xpt, on the file's content: what it writes to output_path
ReplaceTextInXpt(file, old_text, new_text) ==
    LET r == ReadXport(file)
    IN  WriteXport(ApplyMapReplace(r.df, old_text, new_text),
                   XPT_WRITE_VERSION, r.meta.table_name)

\* -------------------------------------------------------------- PDF

\* A PDF document is its pages.  A page is what page.get_text("dict") shows
\* of it, the blocks with their lines and the lines with their spans, each
\* span [text, size], and the texts inserted on it so far.  An image block
\* has no "lines" entry: block.get("lines", []) is the empty list.
PdfFile(pages) == [kind |-> "pdf", pages |-> pages]
Span(text, size) == [text |-> text, size |-> size]
Line(spans) == [spans |-> spans]
TextBlock(lines) == [type |-> "text", lines |-> lines]
ImageBlock == [type |-> "image", lines |-> <<>>]
Page(blocks) == [blocks |-> blocks, inserts |-> <<>>]

\* original_fontsize = 12, line 37
DEFAULT_FONTSIZE == 12

\* the text of a line: the texts of its spans one after the other
RECURSIVE LineText(_)
LineText(spans) ==
    IF spans = <<>> THEN <<>> ELSE Head(spans).text \o LineText(Tail(spans))

\* page.search_for(old_text), line 28, searches the text of the page as one
\* string, the haystack: the characters of every line of every text block,
\* in order, a line break after each line and after each block.  A line
\* that ends in a hyphen and has a line after it in its block is joined to
\* that line (TEXT_DEHYPHENATE, a default flag of search_for): its hyphen
\* and its line break are left out.  A character is [c, block, line, pos],
\* pos its place in the text of its line, 0 for a line break.
LineBreak(b, l) == [c |-> "\n", block |-> b, line |-> l, pos |-> 0]

RECURSIVE Haystack(_, _, _)
Haystack(blocks, b, l) ==
    IF b > Len(blocks) THEN <<>>
    ELSE IF l > Len(blocks[b].lines)
    THEN (IF blocks[b].type = "text" THEN <<LineBreak(b, l)>> ELSE <<>>)
         \o Haystack(blocks, b + 1, 1)
    ELSE LET text == LineText(blocks[b].lines[l].spans)
             joined == /\ text # <<>>
                       /\ text[Len(text)] = "-"
                       /\ l < Len(blocks[b].lines)
             n == IF joined THEN Len(text) - 1 ELSE Len(text)
         IN  [j \in 1..n |-> [c |-> text[j], block |-> b, line |-> l, pos |-> j]]
             \o (IF joined THEN <<>> ELSE <<LineBreak(b, l)>>)
             \o Haystack(blocks, b, l + 1)

\* the search compares characters with letter case ignored and every
\* white-space character, a line break too, taken for a space
SearchSpaces == {" ", "\t", "\n", "\r", "U+00A0", "U+2028", "U+2029"}
Canon(c) == IF c \in SearchSpaces THEN " " ELSE LowerChar(c)

\* the first place from i on that holds no white space
RECURSIVE SkipSpaces(_, _)
SkipSpaces(chars, i) ==
    IF i <= Len(chars) /\ Canon(chars[i]) = " " THEN SkipSpaces(chars, i + 1) ELSE i

\* needle from its character k on stands in the haystack at place i: the
\* place after the last character matched (e so far), or 0 if it does not;
\* a run of white space in the needle matches a run of white space
RECURSIVE MatchEnd(_, _, _, _, _)
MatchEnd(hay, needle, i, k, e) ==
    IF k > Len(needle) THEN e
    ELSE IF i > Len(hay) \/ Canon(hay[i].c) # Canon(needle[k]) THEN 0
    ELSE IF Canon(needle[k]) = " "
    THEN MatchEnd(hay, needle,
                  SkipSpaces([j \in 1..Len(hay) |-> hay[j].c], i),
                  SkipSpaces(needle, k), i + 1)
    ELSE MatchEnd(hay, needle, i + 1, k + 1, i + 1)

\* the characters of the haystack inside a hit, in order: the hits are
\* looked for left to right, each after the end of the one before
RECURSIVE Highlighted(_, _, _)
Highlighted(hay, needle, start) ==
    IF needle = <<>> \/ start > Len(hay) THEN <<>>
    ELSE LET e == MatchEnd(hay, needle, start, 1, start)
         IN  IF e = 0 THEN Highlighted(hay, needle, start + 1)
             ELSE SelectSeq(SubSeq(hay, start, e - 1), LAMBDA h : h.pos > 0)
                  \o Highlighted(hay, needle, e)

\* the rectangles of the highlighted characters: a character next to the
\* one before it on its line widens the last rectangle, any other starts a
\* new one.  So a hit that runs over a line break has a rectangle on each
\* line, a hit that runs from one span into the next has one, and hits that
\* touch share one.  A rectangle is identified by its line and its place in
\* the text of that line.
RECURSIVE MergeQuads(_, _)
MergeQuads(rects, chars) ==
    IF chars = <<>> THEN rects
    ELSE LET h == Head(chars)
             n == Len(rects)
         IN  IF /\ n > 0
                /\ rects[n].block = h.block /\ rects[n].line = h.line
                /\ rects[n].pos + rects[n].len = h.pos
             THEN MergeQuads([rects EXCEPT ![n].len = @ + 1], Tail(chars))
             ELSE MergeQuads(Append(rects, [block |-> h.block, line |-> h.line,
                                            pos |-> h.pos, len |-> 1]),
                             Tail(chars))

SearchFor(page, needle) ==
    MergeQuads(<<>>, Highlighted(Haystack(page.blocks, 1, 1), needle, 1))

\* the text of a span that starts after off characters of line l of block b,
\* with the glyphs inside the rectangles removed
RECURSIVE RedactText(_, _, _, _, _, _)
RedactText(text, off, b, l, rects, j) ==
    IF j > Len(text) THEN <<>>
    ELSE (IF \E r \in 1..Len(rects) :
                /\ rects[r].block = b /\ rects[r].line = l
                /\ rects[r].pos <= off + j
                /\ off + j < rects[r].pos + rects[r].len
          THEN <<>> ELSE <<text[j]>>)
         \o RedactText(text, off, b, l, rects, j + 1)

\* page.add_redact_annot(rect) for every rect, then page.apply_redactions()
ApplyRedactions(blocks, rects) ==
    [b \in 1..Len(blocks) |->
       [blocks[b] EXCEPT !.lines =
          [l \in 1..Len(blocks[b].lines) |->
             LET spans == blocks[b].lines[l].spans
             IN  Line([k \in 1..Len(spans) |->
                         [spans[k] EXCEPT !.text =
                            RedactText(spans[k].text,
                                       Len(LineText(SubSeq(spans, 1, k - 1))),
                                       b, l, rects, 1)]])]]]

\* the spans whose text contains old_text, as <<block, line, span>>
SpanHits(text_info, old_text) ==
    UNION {UNION {{<<b, l, k>> : k \in {k \in 1..Len(text_info[b].lines[l].spans) :
                       StrContains(text_info[b].lines[l].spans[k].text, old_text)}} :
                  l \in 1..Len(text_info[b].lines)} :
           b \in 1..Len(text_info)}

\* x comes before y in block, line, span order
ComesBefore(x, y) ==
    \/ x[1] < y[1]
    \/ x[1] = y[1] /\ x[2] < y[2]
    \/ x[1] = y[1] /\ x[2] = y[2] /\ x[3] < y[3]

\* Faulty variant: the loops without their breaks, the last span whose text
\* contains old_text giving the size.
OriginalFontsizeNoBreak(text_info, old_text) ==
    LET hits == SpanHits(text_info, old_text)
    IN  IF hits = {} THEN DEFAULT_FONTSIZE
        ELSE LET h == CHOOSE x \in hits : \A y \in hits : y = x \/ ComesBefore(y, x)
             IN  text_info[h[1]].lines[h[2]].spans[h[3]].size

\* lines 37-49: the loops over blocks, lines and spans, left at the first
\* span whose text contains old_text
OriginalFontsize(text_info, old_text) ==
    LET hits == SpanHits(text_info, old_text)
    IN  IF hits = {} THEN DEFAULT_FONTSIZE
        ELSE LET h == CHOOSE x \in hits : \A y \in hits : y = x \/ ComesBefore(x, y)
             IN  text_info[h[1]].lines[h[2]].spans[h[3]].size

\* the body of the page loop, lines 28-56
ReplaceOnPage(page, old_text, new_text) ==
    LET text_instances == SearchFor(page, old_text)
        original_text_info == page.blocks
    IN  IF text_instances = <<>> THEN page
        ELSE [blocks |-> ApplyRedactions(page.blocks, text_instances),
              inserts |-> page.inserts \o
                 [i \in 1..Len(text_instances) |->
                    [at |-> text_instances[i],
                     text |-> new_text,
                     fontsize |-> OriginalFontsize(original_text_info, old_text),
                     fontname |-> "Times-Roman"]]]

\* one call on a page object; rect and fontsize are NoRect and 0 for a call
\* that takes none
NoRect == [block |-> 0, line |-> 0, pos |-> 0, len |-> 0]
PdfCall(fn, p, rect, fontsize) ==
    [fn |-> fn, page |-> p, rect |-> rect, fontsize |-> fontsize]

\* the calls the body of the page loop makes on page number p, lines 28-56,
\* in the order it makes them
PageCalls(page, p, old_text, new_text) ==
    LET text_instances == SearchFor(page, old_text)
        original_text_info == page.blocks
        n == Len(text_instances)
    IN  <<PdfCall("search_for", p, NoRect, 0)>>
        \o (IF text_instances = <<>> THEN <<>>
            ELSE <<PdfCall("get_text", p, NoRect, 0)>>
                 \o [i \in 1..n |-> PdfCall("add_redact_annot", p, text_instances[i], 0)]
                 \o <<PdfCall("apply_redactions", p, NoRect, 0)>>
                 \o [i \in 1..n |->
                       PdfCall("insert_text", p, text_instances[i],
                               OriginalFontsize(original_text_info, old_text))])

\* the page loop, line 27: the calls on page p and on the pages after it
RECURSIVE PdfCallsFrom(_, _, _, _)
PdfCallsFrom(file, old_text, new_text, p) ==
    IF p > Len(file.pages) THEN <<>>
    ELSE PageCalls(file.pages[p], p, old_text, new_text)
         \o PdfCallsFrom(file, old_text, new_text, p + 1)

\* replace_text_in_pdf, on the file's content: what it saves to output_path
ReplaceTextInPdf(file, old_text, new_text) ==
    PdfFile([p \in 1..Len(file.pages) |->
               ReplaceOnPage(file.pages[p], old_text, new_text)])

\* a file of zero bytes: none of the four readers accepts it
EmptyFile == [kind |-> "empty"]

\* ------------------------------------------------------ paths and names

\* werkzeug's secure_filename: the name through NFKD and the ASCII encoder,
\* path separators become spaces, runs of whitespace become one "_", every
\* character outside [A-Za-z0-9_.-] is dropped, leading and trailing "."
\* and "_" are stripped.
\* A character of printable ASCII or of printable Latin-1 (U+00A1 to U+00FF)
\* is written as itself; every other character is written by its code
\* point, "U+" and its four to six hexadecimal digits, as is the backtick.
\* the printable characters of ASCII other than letters, digits and space
AsciiPunctuation == {"!", "\"", "#", "$", "%", "&", "'", "(", ")", "*", "+", ",",
                     "-", ".", "/", ":", ";", "<", "=", ">", "?", "@", "[", "\\",
                     "]", "^", "_", "U+0060", "{", "|", "}", "~"}

\* the control characters of ASCII that are no whitespace
AsciiControls == {"U+0000", "U+0001", "U+0002", "U+0003", "U+0004", "U+0005",
                  "U+0006", "U+0007", "U+0008", "U+000E", "U+000F", "U+0010",
                  "U+0011", "U+0012", "U+0013", "U+0014", "U+0015", "U+0016",
                  "U+0017", "U+0018", "U+0019", "U+001A", "U+001B", "U+007F"}

\* the 128 characters the ASCII encoder keeps
IsAscii(c) ==
    c \in Range(UpperChars) \cup Range(LowerChars) \cup Range(DigitChars)
          \cup AsciiPunctuation \cup AsciiSpaces \cup AsciiControls

\* unicodedata.normalize("NFKD", c).encode("ascii", "ignore") for every
\* character outside ASCII that leaves something behind (Unicode 14): the
\* letter under an accent, the letters of a ligature, the digits of a
\* superscript or fraction, the space of a compatibility space; each entry
\* is the set of characters with one result, and the result
NfkdAsciiTable ==
    <<<<{"U+00A0", "¨", "¯", "´", "¸", "U+02D8", "U+02D9", "U+02DA", "U+02DB",
        "U+02DC", "U+02DD", "U+037A", "U+0384", "U+0385", "U+1FBD", "U+1FBF", "U+1FC0",
        "U+1FC1", "U+1FCD", "U+1FCE", "U+1FCF", "U+1FDD", "U+1FDE", "U+1FDF", "U+1FED",
        "U+1FEE", "U+1FFD", "U+1FFE", "U+2000", "U+2001", "U+2002", "U+2003", "U+2004",
        "U+2005", "U+2006", "U+2007", "U+2008", "U+2009", "U+200A", "U+2017", "U+202F",
        "U+203E", "U+205F", "U+3000", "U+309B", "U+309C", "U+FC5E", "U+FC5F", "U+FC60",
        "U+FC61", "U+FC62", "U+FC63", "U+FDFB", "U+FE49", "U+FE4A", "U+FE4B", "U+FE4C",
        "U+FE70", "U+FE72", "U+FE74", "U+FE76", "U+FE78", "U+FE7A", "U+FE7C", "U+FE7E",
        "U+FFE3"}, <<" ">>>>,
      <<{"ª", "à", "á", "â", "ã", "ä", "å", "U+0101", "U+0103", "U+0105", "U+01CE",
        "U+01DF", "U+01E1", "U+01FB", "U+0201", "U+0203", "U+0227", "U+1D43", "U+1E01",
        "U+1E9A", "U+1EA1", "U+1EA3", "U+1EA5", "U+1EA7", "U+1EA9", "U+1EAB", "U+1EAD",
        "U+1EAF", "U+1EB1", "U+1EB3", "U+1EB5", "U+1EB7", "U+2090", "U+24D0", "U+FF41",
        "U+1D41A", "U+1D44E", "U+1D482", "U+1D4B6", "U+1D4EA", "U+1D51E", "U+1D552",
        "U+1D586", "U+1D5BA", "U+1D5EE", "U+1D622", "U+1D656", "U+1D68A"}, <<"a">>>>,
      <<{"²", "U+2082", "U+2461", "U+32C1", "U+335A", "U+33E1", "U+FF12", "U+1D7D0",
        "U+1D7DA", "U+1D7E4", "U+1D7EE", "U+1D7F8", "U+1FBF2"}, <<"2">>>>,
      <<{"³", "U+2083", "U+2462", "U+32C2", "U+335B", "U+33E2", "U+FF13", "U+1D7D1",
        "U+1D7DB", "U+1D7E5", "U+1D7EF", "U+1D7F9", "U+1FBF3"}, <<"3">>>>,
      <<{"¹", "U+2081", "U+215F", "U+2460", "U+32C0", "U+3359", "U+33E0", "U+FF11",
        "U+1D7CF", "U+1D7D9", "U+1D7E3", "U+1D7ED", "U+1D7F7", "U+1FBF1"}, <<"1">>>>,
      <<{"º", "ò", "ó", "ô", "õ", "ö", "U+014D", "U+014F", "U+0151", "U+01A1",
        "U+01D2", "U+01EB", "U+01ED", "U+020D", "U+020F", "U+022B", "U+022D", "U+022F",
        "U+0231", "U+1D52", "U+1E4D", "U+1E4F", "U+1E51", "U+1E53", "U+1ECD", "U+1ECF",
        "U+1ED1", "U+1ED3", "U+1ED5", "U+1ED7", "U+1ED9", "U+1EDB", "U+1EDD", "U+1EDF",
        "U+1EE1", "U+1EE3", "U+2092", "U+2134", "U+24DE", "U+FF4F", "U+1D428",
        "U+1D45C", "U+1D490", "U+1D4F8", "U+1D52C", "U+1D560", "U+1D594", "U+1D5C8",
        "U+1D5FC", "U+1D630", "U+1D664", "U+1D698"}, <<"o">>>>,
      <<{"¼", "U+246D", "U+3366", "U+33ED"}, <<"1", "4">>>>,
      <<{"½", "U+246B", "U+32CB", "U+3364", "U+33EB"}, <<"1", "2">>>>,
      <<{"¾", "U+325E"}, <<"3", "4">>>>,
      <<{"À", "Á", "Â", "Ã", "Ä", "Å", "U+0100", "U+0102", "U+0104", "U+01CD",
        "U+01DE", "U+01E0", "U+01FA", "U+0200", "U+0202", "U+0226", "U+1D2C", "U+1E00",
        "U+1EA0", "U+1EA2", "U+1EA4", "U+1EA6", "U+1EA8", "U+1EAA", "U+1EAC", "U+1EAE",
        "U+1EB0", "U+1EB2", "U+1EB4", "U+1EB6", "U+212B", "U+24B6", "U+3382", "U+FF21",
        "U+1D400", "U+1D434", "U+1D468", "U+1D49C", "U+1D4D0", "U+1D504", "U+1D538",
        "U+1D56C", "U+1D5A0", "U+1D5D4", "U+1D608", "U+1D63C", "U+1D670", "U+1F130"},
        <<"A">>>>,
      <<{"Ç", "U+0106", "U+0108", "U+010A", "U+010C", "U+1E08", "U+2102", "U+2103",
        "U+212D", "U+216D", "U+24B8", "U+A7F2", "U+FF23", "U+1D402", "U+1D436",
        "U+1D46A", "U+1D49E", "U+1D4D2", "U+1D56E", "U+1D5A2", "U+1D5D6", "U+1D60A",
        "U+1D63E", "U+1D672", "U+1F12B", "U+1F132"}, <<"C">>>>,
      <<{"È", "É", "Ê", "Ë", "U+0112", "U+0114", "U+0116", "U+0118", "U+011A",
        "U+0204", "U+0206", "U+0228", "U+1D31", "U+1E14", "U+1E16", "U+1E18", "U+1E1A",
        "U+1E1C", "U+1EB8", "U+1EBA", "U+1EBC", "U+1EBE", "U+1EC0", "U+1EC2", "U+1EC4",
        "U+1EC6", "U+2130", "U+24BA", "U+FF25", "U+1D404", "U+1D438", "U+1D46C",
        "U+1D4D4", "U+1D508", "U+1D53C", "U+1D570", "U+1D5A4", "U+1D5D8", "U+1D60C",
        "U+1D640", "U+1D674", "U+1F134"}, <<"E">>>>,
      <<{"Ì", "Í", "Î", "Ï", "U+0128", "U+012A", "U+012C", "U+012E", "U+0130",
        "U+01CF", "U+0208", "U+020A", "U+1D35", "U+1E2C", "U+1E2E", "U+1EC8", "U+1ECA",
        "U+2110", "U+2111", "U+2160", "U+24BE", "U+FF29", "U+1D408", "U+1D43C",
        "U+1D470", "U+1D4D8", "U+1D540", "U+1D574", "U+1D5A8", "U+1D5DC", "U+1D610",
        "U+1D644", "U+1D678", "U+1F138"}, <<"I">>>>,
      <<{"Ñ", "U+0143", "U+0145", "U+0147", "U+01F8", "U+1D3A", "U+1E44", "U+1E46",
        "U+1E48", "U+1E4A", "U+2115", "U+24C3", "U+FF2E", "U+1D40D", "U+1D441",
        "U+1D475", "U+1D4A9", "U+1D4DD", "U+1D511", "U+1D579", "U+1D5AD", "U+1D5E1",
        "U+1D615", "U+1D649", "U+1D67D", "U+1F13D"}, <<"N">>>>,
      <<{"Ò", "Ó", "Ô", "Õ", "Ö", "U+014C", "U+014E", "U+0150", "U+01A0", "U+01D1",
        "U+01EA", "U+01EC", "U+020C", "U+020E", "U+022A", "U+022C", "U+022E", "U+0230",
        "U+1D3C", "U+1E4C", "U+1E4E", "U+1E50", "U+1E52", "U+1ECC", "U+1ECE", "U+1ED0",
        "U+1ED2", "U+1ED4", "U+1ED6", "U+1ED8", "U+1EDA", "U+1EDC", "U+1EDE", "U+1EE0",
        "U+1EE2", "U+24C4", "U+FF2F", "U+1D40E", "U+1D442", "U+1D476", "U+1D4AA",
        "U+1D4DE", "U+1D512", "U+1D546", "U+1D57A", "U+1D5AE", "U+1D5E2", "U+1D616",
        "U+1D64A", "U+1D67E", "U+1F13E"}, <<"O">>>>,
      <<{"Ù", "Ú", "Û", "Ü", "U+0168", "U+016A", "U+016C", "U+016E", "U+0170",
        "U+0172", "U+01AF", "U+01D3", "U+01D5", "U+01D7", "U+01D9", "U+01DB", "U+0214",
        "U+0216", "U+1D41", "U+1E72", "U+1E74", "U+1E76", "U+1E78", "U+1E7A", "U+1EE4",
        "U+1EE6", "U+1EE8", "U+1EEA", "U+1EEC", "U+1EEE", "U+1EF0", "U+24CA", "U+FF35",
        "U+1D414", "U+1D448", "U+1D47C", "U+1D4B0", "U+1D4E4", "U+1D518", "U+1D54C",
        "U+1D580", "U+1D5B4", "U+1D5E8", "U+1D61C", "U+1D650", "U+1D684", "U+1F144"},
        <<"U">>>>,
      <<{"Ý", "U+0176", "U+0178", "U+0232", "U+1E8E", "U+1EF2", "U+1EF4", "U+1EF6",
        "U+1EF8", "U+24CE", "U+FF39", "U+1D418", "U+1D44C", "U+1D480", "U+1D4B4",
        "U+1D4E8", "U+1D51C", "U+1D550", "U+1D584", "U+1D5B8", "U+1D5EC", "U+1D620",
        "U+1D654", "U+1D688", "U+1F148"}, <<"Y">>>>,
      <<{"ç", "U+0107", "U+0109", "U+010B", "U+010D", "U+1D9C", "U+1E09", "U+217D",
        "U+24D2", "U+FF43", "U+1D41C", "U+1D450", "U+1D484", "U+1D4B8", "U+1D4EC",
        "U+1D520", "U+1D554", "U+1D588", "U+1D5BC", "U+1D5F0", "U+1D624", "U+1D658",
        "U+1D68C"}, <<"c">>>>,
      <<{"è", "é", "ê", "ë", "U+0113", "U+0115", "U+0117", "U+0119", "U+011B",
        "U+0205", "U+0207", "U+0229", "U+1D49", "U+1E15", "U+1E17", "U+1E19", "U+1E1B",
        "U+1E1D", "U+1EB9", "U+1EBB", "U+1EBD", "U+1EBF", "U+1EC1", "U+1EC3", "U+1EC5",
        "U+1EC7", "U+2091", "U+212F", "U+2147", "U+24D4", "U+FF45", "U+1D41E",
        "U+1D452", "U+1D486", "U+1D4EE", "U+1D522", "U+1D556", "U+1D58A", "U+1D5BE",
        "U+1D5F2", "U+1D626", "U+1D65A", "U+1D68E"}, <<"e">>>>,
      <<{"ì", "í", "î", "ï", "U+0129", "U+012B", "U+012D", "U+012F", "U+01D0",
        "U+0209", "U+020B", "U+1D62", "U+1E2D", "U+1E2F", "U+1EC9", "U+1ECB", "U+2071",
        "U+2139", "U+2148", "U+2170", "U+24D8", "U+FF49", "U+1D422", "U+1D456",
        "U+1D48A", "U+1D4BE", "U+1D4F2", "U+1D526", "U+1D55A", "U+1D58E", "U+1D5C2",
        "U+1D5F6", "U+1D62A", "U+1D65E", "U+1D692"}, <<"i">>>>,
      <<{"ñ", "U+0144", "U+0146", "U+0148", "U+0149", "U+01F9", "U+1E45", "U+1E47",
        "U+1E49", "U+1E4B", "U+207F", "U+2099", "U+24DD", "U+FF4E", "U+1D427",
        "U+1D45B", "U+1D48F", "U+1D4C3", "U+1D4F7", "U+1D52B", "U+1D55F", "U+1D593",
        "U+1D5C7", "U+1D5FB", "U+1D62F", "U+1D663", "U+1D697"}, <<"n">>>>,
      <<{"ù", "ú", "û", "ü", "U+0169", "U+016B", "U+016D", "U+016F", "U+0171",
        "U+0173", "U+01B0", "U+01D4", "U+01D6", "U+01D8", "U+01DA", "U+01DC", "U+0215",
        "U+0217", "U+1D58", "U+1D64", "U+1E73", "U+1E75", "U+1E77", "U+1E79", "U+1E7B",
        "U+1EE5", "U+1EE7", "U+1EE9", "U+1EEB", "U+1EED", "U+1EEF", "U+1EF1", "U+24E4",
        "U+FF55", "U+1D42E", "U+1D462", "U+1D496", "U+1D4CA", "U+1D4FE", "U+1D532",
        "U+1D566", "U+1D59A", "U+1D5CE", "U+1D602", "U+1D636", "U+1D66A", "U+1D69E"},
        <<"u">>>>,
      <<{"ý", "ÿ", "U+0177", "U+0233", "U+02B8", "U+1E8F", "U+1E99", "U+1EF3",
        "U+1EF5", "U+1EF7", "U+1EF9", "U+24E8", "U+FF59", "U+1D432", "U+1D466",
        "U+1D49A", "U+1D4CE", "U+1D502", "U+1D536", "U+1D56A", "U+1D59E", "U+1D5D2",
        "U+1D606", "U+1D63A", "U+1D66E", "U+1D6A2"}, <<"y">>>>,
      <<{"U+010E", "U+1D30", "U+1E0A", "U+1E0C", "U+1E0E", "U+1E10", "U+1E12",
        "U+2145", "U+216E", "U+24B9", "U+FF24", "U+1D403", "U+1D437", "U+1D46B",
        "U+1D49F", "U+1D4D3", "U+1D507", "U+1D53B", "U+1D56F", "U+1D5A3", "U+1D5D7",
        "U+1D60B", "U+1D63F", "U+1D673", "U+1F133"}, <<"D">>>>,
      <<{"U+010F", "U+1D48", "U+1E0B", "U+1E0D", "U+1E0F", "U+1E11", "U+1E13",
        "U+2146", "U+217E", "U+24D3", "U+FF44", "U+1D41D", "U+1D451", "U+1D485",
        "U+1D4B9", "U+1D4ED", "U+1D521", "U+1D555", "U+1D589", "U+1D5BD", "U+1D5F1",
        "U+1D625", "U+1D659", "U+1D68D"}, <<"d">>>>,
      <<{"U+011C", "U+011E", "U+0120", "U+0122", "U+01E6", "U+01F4", "U+1D33",
        "U+1E20", "U+24BC", "U+FF27", "U+1D406", "U+1D43A", "U+1D46E", "U+1D4A2",
        "U+1D4D6", "U+1D50A", "U+1D53E", "U+1D572", "U+1D5A6", "U+1D5DA", "U+1D60E",
        "U+1D642", "U+1D676", "U+1F136"}, <<"G">>>>,
      <<{"U+011D", "U+011F", "U+0121", "U+0123", "U+01E7", "U+01F5", "U+1D4D",
        "U+1E21", "U+210A", "U+24D6", "U+338D", "U+FF47", "U+1D420", "U+1D454",
        "U+1D488", "U+1D4F0", "U+1D524", "U+1D558", "U+1D58C", "U+1D5C0", "U+1D5F4",
        "U+1D628", "U+1D65C", "U+1D690"}, <<"g">>>>,
      <<{"U+0124", "U+021E", "U+1D34", "U+1E22", "U+1E24", "U+1E26", "U+1E28",
        "U+1E2A", "U+210B", "U+210C", "U+210D", "U+24BD", "U+FF28", "U+1D407",
        "U+1D43B", "U+1D46F", "U+1D4D7", "U+1D573", "U+1D5A7", "U+1D5DB", "U+1D60F",
        "U+1D643", "U+1D677", "U+1F137"}, <<"H">>>>,
      <<{"U+0125", "U+021F", "U+02B0", "U+1E23", "U+1E25", "U+1E27", "U+1E29",
        "U+1E2B", "U+1E96", "U+2095", "U+210E", "U+24D7", "U+FF48", "U+1D421",
        "U+1D489", "U+1D4BD", "U+1D4F1", "U+1D525", "U+1D559", "U+1D58D", "U+1D5C1",
        "U+1D5F5", "U+1D629", "U+1D65D", "U+1D691"}, <<"h">>>>,
      <<{"U+0132"}, <<"I", "J">>>>,
      <<{"U+0133"}, <<"i", "j">>>>,
      <<{"U+0134", "U+1D36", "U+24BF", "U+FF2A", "U+1D409", "U+1D43D", "U+1D471",
        "U+1D4A5", "U+1D4D9", "U+1D50D", "U+1D541", "U+1D575", "U+1D5A9", "U+1D5DD",
        "U+1D611", "U+1D645", "U+1D679", "U+1F139"}, <<"J">>>>,
      <<{"U+0135", "U+01F0", "U+02B2", "U+2149", "U+24D9", "U+2C7C", "U+FF4A",
        "U+1D423", "U+1D457", "U+1D48B", "U+1D4BF", "U+1D4F3", "U+1D527", "U+1D55B",
        "U+1D58F", "U+1D5C3", "U+1D5F7", "U+1D62B", "U+1D65F", "U+1D693"}, <<"j">>>>,
      <<{"U+0136", "U+01E8", "U+1D37", "U+1E30", "U+1E32", "U+1E34", "U+212A",
        "U+24C0", "U+FF2B", "U+1D40A", "U+1D43E", "U+1D472", "U+1D4A6", "U+1D4DA",
        "U+1D50E", "U+1D542", "U+1D576", "U+1D5AA", "U+1D5DE", "U+1D612", "U+1D646",
        "U+1D67A", "U+1F13A"}, <<"K">>>>,
      <<{"U+0137", "U+01E9", "U+1D4F", "U+1E31", "U+1E33", "U+1E35", "U+2096",
        "U+24DA", "U+33C0", "U+FF4B", "U+1D424", "U+1D458", "U+1D48C", "U+1D4C0",
        "U+1D4F4", "U+1D528", "U+1D55C", "U+1D590", "U+1D5C4", "U+1D5F8", "U+1D62C",
        "U+1D660", "U+1D694"}, <<"k">>>>,
      <<{"U+0139", "U+013B", "U+013D", "U+013F", "U+1D38", "U+1E36", "U+1E38",
        "U+1E3A", "U+1E3C", "U+2112", "U+216C", "U+24C1", "U+FF2C", "U+1D40B",
        "U+1D43F", "U+1D473", "U+1D4DB", "U+1D50F", "U+1D543", "U+1D577", "U+1D5AB",
        "U+1D5DF", "U+1D613", "U+1D647", "U+1D67B", "U+1F13B"}, <<"L">>>>,
      <<{"U+013A", "U+013C", "U+013E", "U+0140", "U+02E1", "U+1E37", "U+1E39",
        "U+1E3B", "U+1E3D", "U+2097", "U+2113", "U+217C", "U+24DB", "U+3395", "U+FF4C",
        "U+1D425", "U+1D459", "U+1D48D", "U+1D4C1", "U+1D4F5", "U+1D529", "U+1D55D",
        "U+1D591", "U+1D5C5", "U+1D5F9", "U+1D62D", "U+1D661", "U+1D695"}, <<"l">>>>,
      <<{"U+0154", "U+0156", "U+0158", "U+0210", "U+0212", "U+1D3F", "U+1E58",
        "U+1E5A", "U+1E5C", "U+1E5E", "U+211B", "U+211C", "U+211D", "U+24C7", "U+FF32",
        "U+1D411", "U+1D445", "U+1D479", "U+1D4E1", "U+1D57D", "U+1D5B1", "U+1D5E5",
        "U+1D619", "U+1D64D", "U+1D681", "U+1F12C", "U+1F141"}, <<"R">>>>,
      <<{"U+0155", "U+0157", "U+0159", "U+0211", "U+0213", "U+02B3", "U+1D63",
        "U+1E59", "U+1E5B", "U+1E5D", "U+1E5F", "U+24E1", "U+FF52", "U+1D42B",
        "U+1D45F", "U+1D493", "U+1D4C7", "U+1D4FB", "U+1D52F", "U+1D563", "U+1D597",
        "U+1D5CB", "U+1D5FF", "U+1D633", "U+1D667", "U+1D69B"}, <<"r">>>>,
      <<{"U+015A", "U+015C", "U+015E", "U+0160", "U+0218", "U+1E60", "U+1E62",
        "U+1E64", "U+1E66", "U+1E68", "U+24C8", "U+FF33", "U+1D412", "U+1D446",
        "U+1D47A", "U+1D4AE", "U+1D4E2", "U+1D516", "U+1D54A", "U+1D57E", "U+1D5B2",
        "U+1D5E6", "U+1D61A", "U+1D64E", "U+1D682", "U+1F12A", "U+1F142"}, <<"S">>>>,
      <<{"U+015B", "U+015D", "U+015F", "U+0161", "U+017F", "U+0219", "U+02E2",
        "U+1E61", "U+1E63", "U+1E65", "U+1E67", "U+1E69", "U+1E9B", "U+209B", "U+24E2",
        "U+33B2", "U+FF53", "U+1D42C", "U+1D460", "U+1D494", "U+1D4C8", "U+1D4FC",
        "U+1D530", "U+1D564", "U+1D598", "U+1D5CC", "U+1D600", "U+1D634", "U+1D668",
        "U+1D69C"}, <<"s">>>>,
      <<{"U+0162", "U+0164", "U+021A", "U+1D40", "U+1E6A", "U+1E6C", "U+1E6E",
        "U+1E70", "U+24C9", "U+FF34", "U+1D413", "U+1D447", "U+1D47B", "U+1D4AF",
        "U+1D4E3", "U+1D517", "U+1D54B", "U+1D57F", "U+1D5B3", "U+1D5E7", "U+1D61B",
        "U+1D64F", "U+1D683", "U+1F143"}, <<"T">>>>,
      <<{"U+0163", "U+0165", "U+021B", "U+1D57", "U+1E6B", "U+1E6D", "U+1E6F",
        "U+1E71", "U+1E97", "U+209C", "U+24E3", "U+FF54", "U+1D42D", "U+1D461",
        "U+1D495", "U+1D4C9", "U+1D4FD", "U+1D531", "U+1D565", "U+1D599", "U+1D5CD",
        "U+1D601", "U+1D635", "U+1D669", "U+1D69D"}, <<"t">>>>,
      <<{"U+0174", "U+1D42", "U+1E80", "U+1E82", "U+1E84", "U+1E86", "U+1E88",
        "U+24CC", "U+33BC", "U+FF37", "U+1D416", "U+1D44A", "U+1D47E", "U+1D4B2",
        "U+1D4E6", "U+1D51A", "U+1D54E", "U+1D582", "U+1D5B6", "U+1D5EA", "U+1D61E",
        "U+1D652", "U+1D686", "U+1F146"}, <<"W">>>>,
      <<{"U+0175", "U+02B7", "U+1E81", "U+1E83", "U+1E85", "U+1E87", "U+1E89",
        "U+1E98", "U+24E6", "U+FF57", "U+1D430", "U+1D464", "U+1D498", "U+1D4CC",
        "U+1D500", "U+1D534", "U+1D568", "U+1D59C", "U+1D5D0", "U+1D604", "U+1D638",
        "U+1D66C", "U+1D6A0"}, <<"w">>>>,
      <<{"U+0179", "U+017B", "U+017D", "U+1E90", "U+1E92", "U+1E94", "U+2124",
        "U+2128", "U+24CF", "U+FF3A", "U+1D419", "U+1D44D", "U+1D481", "U+1D4B5",
        "U+1D4E9", "U+1D585", "U+1D5B9", "U+1D5ED", "U+1D621", "U+1D655", "U+1D689",
        "U+1F149"}, <<"Z">>>>,
      <<{"U+017A", "U+017C", "U+017E", "U+1DBB", "U+1E91", "U+1E93", "U+1E95",
        "U+24E9", "U+FF5A", "U+1D433", "U+1D467", "U+1D49B", "U+1D4CF", "U+1D503",
        "U+1D537", "U+1D56B", "U+1D59F", "U+1D5D3", "U+1D607", "U+1D63B", "U+1D66F",
        "U+1D6A3"}, <<"z">>>>,
      <<{"U+01C4", "U+01F1"}, <<"D", "Z">>>>,
      <<{"U+01C5", "U+01F2"}, <<"D", "z">>>>,
      <<{"U+01C6", "U+01F3"}, <<"d", "z">>>>,
      <<{"U+01C7"}, <<"L", "J">>>>,
      <<{"U+01C8"}, <<"L", "j">>>>,
      <<{"U+01C9"}, <<"l", "j">>>>,
      <<{"U+01CA"}, <<"N", "J">>>>,
      <<{"U+01CB"}, <<"N", "j">>>>,
      <<{"U+01CC"}, <<"n", "j">>>>,
      <<{"U+02E3", "U+1E8B", "U+1E8D", "U+2093", "U+2179", "U+24E7", "U+FF58",
        "U+1D431", "U+1D465", "U+1D499", "U+1D4CD", "U+1D501", "U+1D535", "U+1D569",
        "U+1D59D", "U+1D5D1", "U+1D605", "U+1D639", "U+1D66D", "U+1D6A1"}, <<"x">>>>,
      <<{"U+037E", "U+FE14", "U+FE54", "U+FF1B"}, <<";">>>>,
      <<{"U+1D2E", "U+1E02", "U+1E04", "U+1E06", "U+212C", "U+24B7", "U+FF22",
        "U+1D401", "U+1D435", "U+1D469", "U+1D4D1", "U+1D505", "U+1D539", "U+1D56D",
        "U+1D5A1", "U+1D5D5", "U+1D609", "U+1D63D", "U+1D671", "U+1F131"}, <<"B">>>>,
      <<{"U+1D39", "U+1E3E", "U+1E40", "U+1E42", "U+2133", "U+216F", "U+24C2",
        "U+33C1", "U+FF2D", "U+1D40C", "U+1D440", "U+1D474", "U+1D4DC", "U+1D510",
        "U+1D544", "U+1D578", "U+1D5AC", "U+1D5E0", "U+1D614", "U+1D648", "U+1D67C",
        "U+1F13C"}, <<"M">>>>,
      <<{"U+1D3E", "U+1E54", "U+1E56", "U+2119", "U+24C5", "U+FF30", "U+1D40F",
        "U+1D443", "U+1D477", "U+1D4AB", "U+1D4DF", "U+1D513", "U+1D57B", "U+1D5AF",
        "U+1D5E3", "U+1D617", "U+1D64B", "U+1D67F", "U+1F13F"}, <<"P">>>>,
      <<{"U+1D47", "U+1E03", "U+1E05", "U+1E07", "U+24D1", "U+FF42", "U+1D41B",
        "U+1D44F", "U+1D483", "U+1D4B7", "U+1D4EB", "U+1D51F", "U+1D553", "U+1D587",
        "U+1D5BB", "U+1D5EF", "U+1D623", "U+1D657", "U+1D68B"}, <<"b">>>>,
      <<{"U+1D50", "U+1E3F", "U+1E41", "U+1E43", "U+2098", "U+217F", "U+24DC",
        "U+339B", "U+FF4D", "U+1D426", "U+1D45A", "U+1D48E", "U+1D4C2", "U+1D4F6",
        "U+1D52A", "U+1D55E", "U+1D592", "U+1D5C6", "U+1D5FA", "U+1D62E", "U+1D662",
        "U+1D696"}, <<"m">>>>,
      <<{"U+1D56", "U+1E55", "U+1E57", "U+209A", "U+24DF", "U+FF50", "U+1D429",
        "U+1D45D", "U+1D491", "U+1D4C5", "U+1D4F9", "U+1D52D", "U+1D561", "U+1D595",
        "U+1D5C9", "U+1D5FD", "U+1D631", "U+1D665", "U+1D699"}, <<"p">>>>,
      <<{"U+1D5B", "U+1D65", "U+1E7D", "U+1E7F", "U+2174", "U+24E5", "U+FF56",
        "U+1D42F", "U+1D463", "U+1D497", "U+1D4CB", "U+1D4FF", "U+1D533", "U+1D567",
        "U+1D59B", "U+1D5CF", "U+1D603", "U+1D637", "U+1D66B", "U+1D69F"}, <<"v">>>>,
      <<{"U+1DA0", "U+1E1F", "U+24D5", "U+FF46", "U+1D41F", "U+1D453", "U+1D487",
        "U+1D4BB", "U+1D4EF", "U+1D523", "U+1D557", "U+1D58B", "U+1D5BF", "U+1D5F3",
        "U+1D627", "U+1D65B", "U+1D68F"}, <<"f">>>>,
      <<{"U+1E1E", "U+2109", "U+2131", "U+24BB", "U+338C", "U+A7F3", "U+FF26",
        "U+1D405", "U+1D439", "U+1D46D", "U+1D4D5", "U+1D509", "U+1D53D", "U+1D571",
        "U+1D5A5", "U+1D5D9", "U+1D60D", "U+1D641", "U+1D675", "U+1F135"}, <<"F">>>>,
      <<{"U+1E7C", "U+1E7E", "U+2164", "U+24CB", "U+2C7D", "U+33B6", "U+FF36",
        "U+1D415", "U+1D449", "U+1D47D", "U+1D4B1", "U+1D4E5", "U+1D519", "U+1D54D",
        "U+1D581", "U+1D5B5", "U+1D5E9", "U+1D61D", "U+1D651", "U+1D685", "U+1F145"},
        <<"V">>>>,
      <<{"U+1E8A", "U+1E8C", "U+2169", "U+24CD", "U+FF38", "U+1D417", "U+1D44B",
        "U+1D47F", "U+1D4B3", "U+1D4E7", "U+1D51B", "U+1D54F", "U+1D583", "U+1D5B7",
        "U+1D5EB", "U+1D61F", "U+1D653", "U+1D687", "U+1F147"}, <<"X">>>>,
      <<{"U+1FEF", "U+FF40"}, <<"U+0060">>>>,
      <<{"U+2024", "U+FE52", "U+FF0E"}, <<".">>>>,
      <<{"U+2025", "U+FE30"}, <<".", ".">>>>,
      <<{"U+2026", "U+FE19"}, <<".", ".", ".">>>>,
      <<{"U+203C"}, <<"!", "!">>>>,
      <<{"U+2047"}, <<"?", "?">>>>,
      <<{"U+2048"}, <<"?", "!">>>>,
      <<{"U+2049"}, <<"!", "?">>>>,
      <<{"U+2070", "U+2080", "U+24EA", "U+3358", "U+FF10", "U+1D7CE", "U+1D7D8",
        "U+1D7E2", "U+1D7EC", "U+1D7F6", "U+1FBF0"}, <<"0">>>>,
      <<{"U+2074", "U+2084", "U+2463", "U+32C3", "U+335C", "U+33E3", "U+FF14",
        "U+1D7D2", "U+1D7DC", "U+1D7E6", "U+1D7F0", "U+1D7FA", "U+1FBF4"}, <<"4">>>>,
      <<{"U+2075", "U+2085", "U+2464", "U+32C4", "U+335D", "U+33E4", "U+FF15",
        "U+1D7D3", "U+1D7DD", "U+1D7E7", "U+1D7F1", "U+1D7FB", "U+1FBF5"}, <<"5">>>>,
      <<{"U+2076", "U+2086", "U+2465", "U+32C5", "U+335E", "U+33E5", "U+FF16",
        "U+1D7D4", "U+1D7DE", "U+1D7E8", "U+1D7F2", "U+1D7FC", "U+1FBF6"}, <<"6">>>>,
      <<{"U+2077", "U+2087", "U+2466", "U+32C6", "U+335F", "U+33E6", "U+FF17",
        "U+1D7D5", "U+1D7DF", "U+1D7E9", "U+1D7F3", "U+1D7FD", "U+1FBF7"}, <<"7">>>>,
      <<{"U+2078", "U+2088", "U+2467", "U+32C7", "U+3360", "U+33E7", "U+FF18",
        "U+1D7D6", "U+1D7E0", "U+1D7EA", "U+1D7F4", "U+1D7FE", "U+1FBF8"}, <<"8">>>>,
      <<{"U+2079", "U+2089", "U+2468", "U+32C8", "U+3361", "U+33E8", "U+FF19",
        "U+1D7D7", "U+1D7E1", "U+1D7EB", "U+1D7F5", "U+1D7FF", "U+1FBF9"}, <<"9">>>>,
      <<{"U+207A", "U+208A", "U+FB29", "U+FE62", "U+FF0B"}, <<"+">>>>,
      <<{"U+207C", "U+208C", "U+2260", "U+FE66", "U+FF1D"}, <<"=">>>>,
      <<{"U+207D", "U+208D", "U+FE35", "U+FE59", "U+FF08"}, <<"(">>>>,
      <<{"U+207E", "U+208E", "U+FE36", "U+FE5A", "U+FF09"}, <<")">>>>,
      <<{"U+20A8"}, <<"R", "s">>>>,
      <<{"U+2100"}, <<"a", "/", "c">>>>,
      <<{"U+2101"}, <<"a", "/", "s">>>>,
      <<{"U+2105"}, <<"c", "/", "o">>>>,
      <<{"U+2106"}, <<"c", "/", "u">>>>,
      <<{"U+2116"}, <<"N", "o">>>>,
      <<{"U+211A", "U+24C6", "U+A7F4", "U+FF31", "U+1D410", "U+1D444", "U+1D478",
        "U+1D4AC", "U+1D4E0", "U+1D514", "U+1D57C", "U+1D5B0", "U+1D5E4", "U+1D618",
        "U+1D64C", "U+1D680", "U+1F140"}, <<"Q">>>>,
      <<{"U+2120"}, <<"S", "M">>>>,
      <<{"U+2121"}, <<"T", "E", "L">>>>,
      <<{"U+2122"}, <<"T", "M">>>>,
      <<{"U+213B"}, <<"F", "A", "X">>>>,
      <<{"U+2150", "U+2470", "U+3369", "U+33F0"}, <<"1", "7">>>>,
      <<{"U+2151", "U+2472", "U+336B", "U+33F2"}, <<"1", "9">>>>,
      <<{"U+2152"}, <<"1", "1", "0">>>>,
      <<{"U+2153", "U+246C", "U+3365", "U+33EC"}, <<"1", "3">>>>,
      <<{"U+2154", "U+3253", "U+336F", "U+33F6"}, <<"2", "3">>>>,
      <<{"U+2155", "U+246E", "U+3367", "U+33EE"}, <<"1", "5">>>>,
      <<{"U+2156", "U+3255", "U+33F8"}, <<"2", "5">>>>,
      <<{"U+2157", "U+325F"}, <<"3", "5">>>>,
      <<{"U+2158", "U+32BA"}, <<"4", "5">>>>,
      <<{"U+2159", "U+246F", "U+3368", "U+33EF"}, <<"1", "6">>>>,
      <<{"U+215A"}, <<"5", "6">>>>,
      <<{"U+215B", "U+2471", "U+336A", "U+33F1"}, <<"1", "8">>>>,
      <<{"U+215C", "U+32B3"}, <<"3", "8">>>>,
      <<{"U+215D"}, <<"5", "8">>>>,
      <<{"U+215E"}, <<"7", "8">>>>,
      <<{"U+2161"}, <<"I", "I">>>>,
      <<{"U+2162"}, <<"I", "I", "I">>>>,
      <<{"U+2163"}, <<"I", "V">>>>,
      <<{"U+2165"}, <<"V", "I">>>>,
      <<{"U+2166"}, <<"V", "I", "I">>>>,
      <<{"U+2167"}, <<"V", "I", "I", "I">>>>,
      <<{"U+2168"}, <<"I", "X">>>>,
      <<{"U+216A"}, <<"X", "I">>>>,
      <<{"U+216B"}, <<"X", "I", "I">>>>,
      <<{"U+2171"}, <<"i", "i">>>>,
      <<{"U+2172"}, <<"i", "i", "i">>>>,
      <<{"U+2173"}, <<"i", "v">>>>,
      <<{"U+2175"}, <<"v", "i">>>>,
      <<{"U+2176"}, <<"v", "i", "i">>>>,
      <<{"U+2177"}, <<"v", "i", "i", "i">>>>,
      <<{"U+2178"}, <<"i", "x">>>>,
      <<{"U+217A"}, <<"x", "i">>>>,
      <<{"U+217B"}, <<"x", "i", "i">>>>,
      <<{"U+2189"}, <<"0", "3">>>>,
      <<{"U+226E", "U+FE64", "U+FF1C"}, <<"<">>>>,
      <<{"U+226F", "U+FE65", "U+FF1E"}, <<">">>>>,
      <<{"U+2469", "U+32C9", "U+3362", "U+33E9"}, <<"1", "0">>>>,
      <<{"U+246A", "U+32CA", "U+3363", "U+33EA"}, <<"1", "1">>>>,
      <<{"U+2473", "U+336C", "U+33F3"}, <<"2", "0">>>>,
      <<{"U+2474"}, <<"(", "1", ")">>>>,
      <<{"U+2475"}, <<"(", "2", ")">>>>,
      <<{"U+2476"}, <<"(", "3", ")">>>>,
      <<{"U+2477"}, <<"(", "4", ")">>>>,
      <<{"U+2478"}, <<"(", "5", ")">>>>,
      <<{"U+2479"}, <<"(", "6", ")">>>>,
      <<{"U+247A"}, <<"(", "7", ")">>>>,
      <<{"U+247B"}, <<"(", "8", ")">>>>,
      <<{"U+247C"}, <<"(", "9", ")">>>>,
      <<{"U+247D"}, <<"(", "1", "0", ")">>>>,
      <<{"U+247E"}, <<"(", "1", "1", ")">>>>,
      <<{"U+247F"}, <<"(", "1", "2", ")">>>>,
      <<{"U+2480"}, <<"(", "1", "3", ")">>>>,
      <<{"U+2481"}, <<"(", "1", "4", ")">>>>,
      <<{"U+2482"}, <<"(", "1", "5", ")">>>>,
      <<{"U+2483"}, <<"(", "1", "6", ")">>>>,
      <<{"U+2484"}, <<"(", "1", "7", ")">>>>,
      <<{"U+2485"}, <<"(", "1", "8", ")">>>>,
      <<{"U+2486"}, <<"(", "1", "9", ")">>>>,
      <<{"U+2487"}, <<"(", "2", "0", ")">>>>,
      <<{"U+2488"}, <<"1", ".">>>>,
      <<{"U+2489"}, <<"2", ".">>>>,
      <<{"U+248A"}, <<"3", ".">>>>,
      <<{"U+248B"}, <<"4", ".">>>>,
      <<{"U+248C"}, <<"5", ".">>>>,
      <<{"U+248D"}, <<"6", ".">>>>,
      <<{"U+248E"}, <<"7", ".">>>>,
      <<{"U+248F"}, <<"8", ".">>>>,
      <<{"U+2490"}, <<"9", ".">>>>,
      <<{"U+2491"}, <<"1", "0", ".">>>>,
      <<{"U+2492"}, <<"1", "1", ".">>>>,
      <<{"U+2493"}, <<"1", "2", ".">>>>,
      <<{"U+2494"}, <<"1", "3", ".">>>>,
      <<{"U+2495"}, <<"1", "4", ".">>>>,
      <<{"U+2496"}, <<"1", "5", ".">>>>,
      <<{"U+2497"}, <<"1", "6", ".">>>>,
      <<{"U+2498"}, <<"1", "7", ".">>>>,
      <<{"U+2499"}, <<"1", "8", ".">>>>,
      <<{"U+249A"}, <<"1", "9", ".">>>>,
      <<{"U+249B"}, <<"2", "0", ".">>>>,
      <<{"U+249C"}, <<"(", "a", ")">>>>,
      <<{"U+249D"}, <<"(", "b", ")">>>>,
      <<{"U+249E"}, <<"(", "c", ")">>>>,
      <<{"U+249F"}, <<"(", "d", ")">>>>,
      <<{"U+24A0"}, <<"(", "e", ")">>>>,
      <<{"U+24A1"}, <<"(", "f", ")">>>>,
      <<{"U+24A2"}, <<"(", "g", ")">>>>,
      <<{"U+24A3"}, <<"(", "h", ")">>>>,
      <<{"U+24A4"}, <<"(", "i", ")">>>>,
      <<{"U+24A5"}, <<"(", "j", ")">>>>,
      <<{"U+24A6"}, <<"(", "k", ")">>>>,
      <<{"U+24A7"}, <<"(", "l", ")">>>>,
      <<{"U+24A8"}, <<"(", "m", ")">>>>,
      <<{"U+24A9"}, <<"(", "n", ")">>>>,
      <<{"U+24AA"}, <<"(", "o", ")">>>>,
      <<{"U+24AB"}, <<"(", "p", ")">>>>,
      <<{"U+24AC"}, <<"(", "q", ")">>>>,
      <<{"U+24AD"}, <<"(", "r", ")">>>>,
      <<{"U+24AE"}, <<"(", "s", ")">>>>,
      <<{"U+24AF"}, <<"(", "t", ")">>>>,
      <<{"U+24B0"}, <<"(", "u", ")">>>>,
      <<{"U+24B1"}, <<"(", "v", ")">>>>,
      <<{"U+24B2"}, <<"(", "w", ")">>>>,
      <<{"U+24B3"}, <<"(", "x", ")">>>>,
      <<{"U+24B4"}, <<"(", "y", ")">>>>,
      <<{"U+24B5"}, <<"(", "z", ")">>>>,
      <<{"U+24E0", "U+FF51", "U+107A5", "U+1D42A", "U+1D45E", "U+1D492", "U+1D4C6",
        "U+1D4FA", "U+1D52E", "U+1D562", "U+1D596", "U+1D5CA", "U+1D5FE", "U+1D632",
        "U+1D666", "U+1D69A"}, <<"q">>>>,
      <<{"U+2A74"}, <<":", ":", "=">>>>,
      <<{"U+2A75"}, <<"=", "=">>>>,
      <<{"U+2A76"}, <<"=", "=", "=">>>>,
      <<{"U+3200", "U+3201", "U+3202", "U+3203", "U+3204", "U+3205", "U+3206",
        "U+3207", "U+3208", "U+3209", "U+320A", "U+320B", "U+320C", "U+320D", "U+320E",
        "U+320F", "U+3210", "U+3211", "U+3212", "U+3213", "U+3214", "U+3215", "U+3216",
        "U+3217", "U+3218", "U+3219", "U+321A", "U+321B", "U+321C", "U+321D", "U+321E",
        "U+3220", "U+3221", "U+3222", "U+3223", "U+3224", "U+3225", "U+3226", "U+3227",
        "U+3228", "U+3229", "U+322A", "U+322B", "U+322C", "U+322D", "U+322E", "U+322F",
        "U+3230", "U+3231", "U+3232", "U+3233", "U+3234", "U+3235", "U+3236", "U+3237",
        "U+3238", "U+3239", "U+323A", "U+323B", "U+323C", "U+323D", "U+323E", "U+323F",
        "U+3240", "U+3241", "U+3242", "U+3243"}, <<"(", ")">>>>,
      <<{"U+3250"}, <<"P", "T", "E">>>>,
      <<{"U+3251", "U+336D", "U+33F4"}, <<"2", "1">>>>,
      <<{"U+3252", "U+336E", "U+33F5"}, <<"2", "2">>>>,
      <<{"U+3254", "U+3370", "U+33F7"}, <<"2", "4">>>>,
      <<{"U+3256", "U+33F9"}, <<"2", "6">>>>,
      <<{"U+3257", "U+33FA"}, <<"2", "7">>>>,
      <<{"U+3258", "U+33FB"}, <<"2", "8">>>>,
      <<{"U+3259", "U+33FC"}, <<"2", "9">>>>,
      <<{"U+325A", "U+33FD"}, <<"3", "0">>>>,
      <<{"U+325B", "U+33FE"}, <<"3", "1">>>>,
      <<{"U+325C"}, <<"3", "2">>>>,
      <<{"U+325D"}, <<"3", "3">>>>,
      <<{"U+32B1"}, <<"3", "6">>>>,
      <<{"U+32B2"}, <<"3", "7">>>>,
      <<{"U+32B4"}, <<"3", "9">>>>,
      <<{"U+32B5"}, <<"4", "0">>>>,
      <<{"U+32B6"}, <<"4", "1">>>>,
      <<{"U+32B7"}, <<"4", "2">>>>,
      <<{"U+32B8"}, <<"4", "3">>>>,
      <<{"U+32B9"}, <<"4", "4">>>>,
      <<{"U+32BB"}, <<"4", "6">>>>,
      <<{"U+32BC"}, <<"4", "7">>>>,
      <<{"U+32BD"}, <<"4", "8">>>>,
      <<{"U+32BE"}, <<"4", "9">>>>,
      <<{"U+32BF"}, <<"5", "0">>>>,
      <<{"U+32CC"}, <<"H", "g">>>>,
      <<{"U+32CD"}, <<"e", "r", "g">>>>,
      <<{"U+32CE"}, <<"e", "V">>>>,
      <<{"U+32CF"}, <<"L", "T", "D">>>>,
      <<{"U+3371"}, <<"h", "P", "a">>>>,
      <<{"U+3372"}, <<"d", "a">>>>,
      <<{"U+3373"}, <<"A", "U">>>>,
      <<{"U+3374"}, <<"b", "a", "r">>>>,
      <<{"U+3375"}, <<"o", "V">>>>,
      <<{"U+3376"}, <<"p", "c">>>>,
      <<{"U+3377"}, <<"d", "m">>>>,
      <<{"U+3378"}, <<"d", "m", "2">>>>,
      <<{"U+3379"}, <<"d", "m", "3">>>>,
      <<{"U+337A"}, <<"I", "U">>>>,
      <<{"U+3380"}, <<"p", "A">>>>,
      <<{"U+3381"}, <<"n", "A">>>>,
      <<{"U+3383"}, <<"m", "A">>>>,
      <<{"U+3384"}, <<"k", "A">>>>,
      <<{"U+3385"}, <<"K", "B">>>>,
      <<{"U+3386"}, <<"M", "B">>>>,
      <<{"U+3387"}, <<"G", "B">>>>,
      <<{"U+3388"}, <<"c", "a", "l">>>>,
      <<{"U+3389"}, <<"k", "c", "a", "l">>>>,
      <<{"U+338A"}, <<"p", "F">>>>,
      <<{"U+338B"}, <<"n", "F">>>>,
      <<{"U+338E"}, <<"m", "g">>>>,
      <<{"U+338F"}, <<"k", "g">>>>,
      <<{"U+3390"}, <<"H", "z">>>>,
      <<{"U+3391"}, <<"k", "H", "z">>>>,
      <<{"U+3392"}, <<"M", "H", "z">>>>,
      <<{"U+3393"}, <<"G", "H", "z">>>>,
      <<{"U+3394"}, <<"T", "H", "z">>>>,
      <<{"U+3396"}, <<"m", "l">>>>,
      <<{"U+3397"}, <<"d", "l">>>>,
      <<{"U+3398"}, <<"k", "l">>>>,
      <<{"U+3399"}, <<"f", "m">>>>,
      <<{"U+339A"}, <<"n", "m">>>>,
      <<{"U+339C"}, <<"m", "m">>>>,
      <<{"U+339D"}, <<"c", "m">>>>,
      <<{"U+339E"}, <<"k", "m">>>>,
      <<{"U+339F"}, <<"m", "m", "2">>>>,
      <<{"U+33A0"}, <<"c", "m", "2">>>>,
      <<{"U+33A1"}, <<"m", "2">>>>,
      <<{"U+33A2"}, <<"k", "m", "2">>>>,
      <<{"U+33A3"}, <<"m", "m", "3">>>>,
      <<{"U+33A4"}, <<"c", "m", "3">>>>,
      <<{"U+33A5"}, <<"m", "3">>>>,
      <<{"U+33A6"}, <<"k", "m", "3">>>>,
      <<{"U+33A7", "U+33B3"}, <<"m", "s">>>>,
      <<{"U+33A8"}, <<"m", "s", "2">>>>,
      <<{"U+33A9"}, <<"P", "a">>>>,
      <<{"U+33AA"}, <<"k", "P", "a">>>>,
      <<{"U+33AB"}, <<"M", "P", "a">>>>,
      <<{"U+33AC"}, <<"G", "P", "a">>>>,
      <<{"U+33AD"}, <<"r", "a", "d">>>>,
      <<{"U+33AE"}, <<"r", "a", "d", "s">>>>,
      <<{"U+33AF"}, <<"r", "a", "d", "s", "2">>>>,
      <<{"U+33B0"}, <<"p", "s">>>>,
      <<{"U+33B1"}, <<"n", "s">>>>,
      <<{"U+33B4"}, <<"p", "V">>>>,
      <<{"U+33B5"}, <<"n", "V">>>>,
      <<{"U+33B7"}, <<"m", "V">>>>,
      <<{"U+33B8"}, <<"k", "V">>>>,
      <<{"U+33B9", "U+1F14B"}, <<"M", "V">>>>,
      <<{"U+33BA"}, <<"p", "W">>>>,
      <<{"U+33BB"}, <<"n", "W">>>>,
      <<{"U+33BD"}, <<"m", "W">>>>,
      <<{"U+33BE"}, <<"k", "W">>>>,
      <<{"U+33BF"}, <<"M", "W">>>>,
      <<{"U+33C2"}, <<"a", ".", "m", ".">>>>,
      <<{"U+33C3"}, <<"B", "q">>>>,
      <<{"U+33C4"}, <<"c", "c">>>>,
      <<{"U+33C5"}, <<"c", "d">>>>,
      <<{"U+33C6"}, <<"C", "k", "g">>>>,
      <<{"U+33C7"}, <<"C", "o", ".">>>>,
      <<{"U+33C8"}, <<"d", "B">>>>,
      <<{"U+33C9"}, <<"G", "y">>>>,
      <<{"U+33CA"}, <<"h", "a">>>>,
      <<{"U+33CB"}, <<"H", "P">>>>,
      <<{"U+33CC"}, <<"i", "n">>>>,
      <<{"U+33CD"}, <<"K", "K">>>>,
      <<{"U+33CE"}, <<"K", "M">>>>,
      <<{"U+33CF"}, <<"k", "t">>>>,
      <<{"U+33D0"}, <<"l", "m">>>>,
      <<{"U+33D1"}, <<"l", "n">>>>,
      <<{"U+33D2"}, <<"l", "o", "g">>>>,
      <<{"U+33D3"}, <<"l", "x">>>>,
      <<{"U+33D4"}, <<"m", "b">>>>,
      <<{"U+33D5"}, <<"m", "i", "l">>>>,
      <<{"U+33D6"}, <<"m", "o", "l">>>>,
      <<{"U+33D7"}, <<"P", "H">>>>,
      <<{"U+33D8"}, <<"p", ".", "m", ".">>>>,
      <<{"U+33D9"}, <<"P", "P", "M">>>>,
      <<{"U+33DA"}, <<"P", "R">>>>,
      <<{"U+33DB"}, <<"s", "r">>>>,
      <<{"U+33DC"}, <<"S", "v">>>>,
      <<{"U+33DD"}, <<"W", "b">>>>,
      <<{"U+33DE"}, <<"V", "m">>>>,
      <<{"U+33DF"}, <<"A", "m">>>>,
      <<{"U+33FF"}, <<"g", "a", "l">>>>,
      <<{"U+FB00"}, <<"f", "f">>>>,
      <<{"U+FB01"}, <<"f", "i">>>>,
      <<{"U+FB02"}, <<"f", "l">>>>,
      <<{"U+FB03"}, <<"f", "f", "i">>>>,
      <<{"U+FB04"}, <<"f", "f", "l">>>>,
      <<{"U+FB05", "U+FB06"}, <<"s", "t">>>>,
      <<{"U+FDFA"}, <<" ", " ", " ">>>>,
      <<{"U+FE10", "U+FE50", "U+FF0C"}, <<",">>>>,
      <<{"U+FE13", "U+FE55", "U+FF1A"}, <<":">>>>,
      <<{"U+FE15", "U+FE57", "U+FF01"}, <<"!">>>>,
      <<{"U+FE16", "U+FE56", "U+FF1F"}, <<"?">>>>,
      <<{"U+FE33", "U+FE34", "U+FE4D", "U+FE4E", "U+FE4F", "U+FF3F"}, <<"_">>>>,
      <<{"U+FE37", "U+FE5B", "U+FF5B"}, <<"{">>>>,
      <<{"U+FE38", "U+FE5C", "U+FF5D"}, <<"}">>>>,
      <<{"U+FE47", "U+FF3B"}, <<"[">>>>,
      <<{"U+FE48", "U+FF3D"}, <<"]">>>>,
      <<{"U+FE5F", "U+FF03"}, <<"#">>>>,
      <<{"U+FE60", "U+FF06"}, <<"&">>>>,
      <<{"U+FE61", "U+FF0A"}, <<"*">>>>,
      <<{"U+FE63", "U+FF0D"}, <<"-">>>>,
      <<{"U+FE68", "U+FF3C"}, <<"\\">>>>,
      <<{"U+FE69", "U+FF04"}, <<"$">>>>,
      <<{"U+FE6A", "U+FF05"}, <<"%">>>>,
      <<{"U+FE6B", "U+FF20"}, <<"@">>>>,
      <<{"U+FF02"}, <<"\"">>>>,
      <<{"U+FF07"}, <<"'">>>>,
      <<{"U+FF0F"}, <<"/">>>>,
      <<{"U+FF3E"}, <<"^">>>>,
      <<{"U+FF5C"}, <<"|">>>>,
      <<{"U+FF5E"}, <<"~">>>>,
      <<{"U+1F100"}, <<"0", ".">>>>,
      <<{"U+1F101"}, <<"0", ",">>>>,
      <<{"U+1F102"}, <<"1", ",">>>>,
      <<{"U+1F103"}, <<"2", ",">>>>,
      <<{"U+1F104"}, <<"3", ",">>>>,
      <<{"U+1F105"}, <<"4", ",">>>>,
      <<{"U+1F106"}, <<"5", ",">>>>,
      <<{"U+1F107"}, <<"6", ",">>>>,
      <<{"U+1F108"}, <<"7", ",">>>>,
      <<{"U+1F109"}, <<"8", ",">>>>,
      <<{"U+1F10A"}, <<"9", ",">>>>,
      <<{"U+1F110"}, <<"(", "A", ")">>>>,
      <<{"U+1F111"}, <<"(", "B", ")">>>>,
      <<{"U+1F112"}, <<"(", "C", ")">>>>,
      <<{"U+1F113"}, <<"(", "D", ")">>>>,
      <<{"U+1F114"}, <<"(", "E", ")">>>>,
      <<{"U+1F115"}, <<"(", "F", ")">>>>,
      <<{"U+1F116"}, <<"(", "G", ")">>>>,
      <<{"U+1F117"}, <<"(", "H", ")">>>>,
      <<{"U+1F118"}, <<"(", "I", ")">>>>,
      <<{"U+1F119"}, <<"(", "J", ")">>>>,
      <<{"U+1F11A"}, <<"(", "K", ")">>>>,
      <<{"U+1F11B"}, <<"(", "L", ")">>>>,
      <<{"U+1F11C"}, <<"(", "M", ")">>>>,
      <<{"U+1F11D"}, <<"(", "N", ")">>>>,
      <<{"U+1F11E"}, <<"(", "O", ")">>>>,
      <<{"U+1F11F"}, <<"(", "P", ")">>>>,
      <<{"U+1F120"}, <<"(", "Q", ")">>>>,
      <<{"U+1F121"}, <<"(", "R", ")">>>>,
      <<{"U+1F122"}, <<"(", "S", ")">>>>,
      <<{"U+1F123"}, <<"(", "T", ")">>>>,
      <<{"U+1F124"}, <<"(", "U", ")">>>>,
      <<{"U+1F125"}, <<"(", "V", ")">>>>,
      <<{"U+1F126"}, <<"(", "W", ")">>>>,
      <<{"U+1F127"}, <<"(", "X", ")">>>>,
      <<{"U+1F128"}, <<"(", "Y", ")">>>>,
      <<{"U+1F129"}, <<"(", "Z", ")">>>>,
      <<{"U+1F12D"}, <<"C", "D">>>>,
      <<{"U+1F12E"}, <<"W", "Z">>>>,
      <<{"U+1F14A"}, <<"H", "V">>>>,
      <<{"U+1F14C"}, <<"S", "D">>>>,
      <<{"U+1F14D"}, <<"S", "S">>>>,
      <<{"U+1F14E"}, <<"P", "P", "V">>>>,
      <<{"U+1F14F"}, <<"W", "C">>>>,
      <<{"U+1F16A"}, <<"M", "C">>>>,
      <<{"U+1F16B"}, <<"M", "D">>>>,
      <<{"U+1F16C"}, <<"M", "R">>>>,
      <<{"U+1F190"}, <<"D", "J">>>>>>

\* one character through NFKD and the ASCII encoder: an ASCII character
\* stays, a character of the table becomes its entry, any other character
\* leaves nothing
NfkdAsciiChar(c) ==
    IF IsAscii(c) THEN <<c>>
    ELSE IF \E i \in DOMAIN NfkdAsciiTable : c \in NfkdAsciiTable[i][1]
    THEN NfkdAsciiTable[CHOOSE i \in DOMAIN NfkdAsciiTable : c \in NfkdAsciiTable[i][1]][2]
    ELSE <<>>

RECURSIVE NfkdAscii(_)
NfkdAscii(s) ==
    IF s = <<>> THEN <<>> ELSE NfkdAsciiChar(Head(s)) \o NfkdAscii(Tail(s))

AllowedChar(c) ==
    c \in Range(UpperChars) \cup Range(LowerChars) \cup Range(DigitChars)
          \cup {"_", ".", "-"}

\* "_".join(filename.replace("/", " ").split()): the words between runs of
\* whitespace and "/", joined by "_"; started says that a word has begun,
\* pending that a separator was passed since
RECURSIVE JoinWords(_, _, _)
JoinWords(s, started, pending) ==
    IF s = <<>> THEN <<>>
    ELSE IF IsSpace(Head(s)) \/ Head(s) = "/" THEN JoinWords(Tail(s), started, started)
    ELSE (IF pending THEN <<"_">> ELSE <<>>) \o <<Head(s)>>
         \o JoinWords(Tail(s), TRUE, FALSE)

\* _filename_ascii_strip_re.sub("", s): only letters, digits, "_", "." and
\* "-" stay
RECURSIVE KeepAllowed(_)
KeepAllowed(s) ==
    IF s = <<>> THEN <<>>
    ELSE (IF AllowedChar(Head(s)) THEN <<Head(s)>> ELSE <<>>) \o KeepAllowed(Tail(s))

\* str.strip("._")
RECURSIVE StripDotUnderscore(_)
StripDotUnderscore(s) ==
    IF s # <<>> /\ Head(s) \in {".", "_"} THEN StripDotUnderscore(Tail(s))
    ELSE IF s # <<>> /\ s[Len(s)] \in {".", "_"}
         THEN StripDotUnderscore(SubSeq(s, 1, Len(s) - 1))
    ELSE s

\* werkzeug.utils.secure_filename on a POSIX system, line 126
SecureFilename(name) ==
    StripDotUnderscore(KeepAllowed(JoinWords(NfkdAscii(name), FALSE, FALSE)))

\* os.path.splitext(name)[1] for a name without directory part: from the
\* last "." on, unless only dots come before it
SplitExt(name) ==
    LET dots == {i \in 1..Len(name) : name[i] = "."}
    IN  IF dots = {} THEN <<>>
        ELSE LET last == CHOOSE i \in dots : \A j \in dots : j <= i
             IN  IF \A j \in 1..(last - 1) : name[j] = "." THEN <<>>
                 ELSE SubSeq(name, last, Len(name))

\* line 132
ExtOf(filename) == StrLower(SplitExt(filename))

\* lines 127-128: f"{uuid.uuid4()}_{filename}" under UPLOAD_FOLDER.  A uuid
\* is one token: 36 characters, hexadecimal digits and "-", none of them "."
FilePath(uuid, filename) ==
    UPLOAD_FOLDER \o <<"/">> \o <<uuid>> \o <<"_">> \o filename

\* lines 58, 68, 90, 99: input_path.replace('.ext', '_modified.ext')
OutputPath(input_path, ext) == StrReplace(input_path, ext, S_modified \o ext)

Supported == {S_pdf, S_csv, S_xml, S_xpt}

\* ------------------------------------------------------------- bounds

\* requests in flight at the same time
NumRequests == 2
\* data rows of a generated CSV or transport file
MaxRows == 2
\* child elements of a generated XML root
MaxChildren == 2
\* pages of a generated PDF file
MaxPages == 2

\* ------------------------------------------------------- sample texts

T_Bob      == <<"B", "o", "b">>
T_Carol    == <<"C", "a", "r", "o", "l">>
T_Alice    == <<"A", "l", "i", "c", "e">>
T_callBob  == <<"c", "a", "l", "l", " ", "B", "o", "b">>
T_callCarol == <<"c", "a", "l", "l", " ", "C", "a", "r", "o", "l">>
T_BobBob   == <<"B", "o", "b", "B", "o", "b">>
T_123      == <<"1", "2", "3">>
T_2        == <<"2">>
T_NA       == <<"N", "A">>
T_name     == <<"n", "a", "m", "e">>
T_note     == <<"n", "o", "t", "e">>
T_id       == <<"i", "d">>
T_row      == <<"r", "o", "w">>
T_rows     == <<"r", "o", "w", "s">>
T_blank    == <<" ", "\r">>
T_padBob   == <<" ", "B", "o", "b", "\r", "\n">>

F_data_csv == <<"d", "a", "t", "a", ".", "c", "s", "v">>
F_DATA_CSV == <<"D", "A", "T", "A", ".", "C", "S", "V">>
F_x_csv_csv == <<"x", ".", "c", "s", "v", ".", "c", "s", "v">>
F_my_r_xml == <<"m", "y", " ", "r", ".", "x", "m", "l">>
F_t_xpt    == <<"t", ".", "x", "p", "t">>
F_p_pdf    == <<"p", ".", "p", "d", "f">>
F_P_PDF    == <<"P", ".", "P", "D", "F">>
F_x_docx   == <<"x", ".", "d", "o", "c", "x">>

\* ---------------------------------------------------- sample documents

Csv1 == CsvFile(<<T_name, T_note>>, <<<<T_Alice, T_callBob>>, <<T_NA, T_123>>>>)

Xml1 == XmlFile(FALSE,
          [e \in 1..3 |->
             IF e = 1 THEN Elem(T_rows, None, None, <<>>, <<2, 3>>)
             ELSE IF e = 2 THEN Elem(T_row, T_callBob, T_Bob, <<<<T_id, T_Bob>>>>, <<>>)
             ELSE Elem(T_row, T_Alice, None, <<<<T_id, T_Alice>>>>, <<>>)])

Xpt1 == XptFile(5, T_rows, <<T_name, T_id>>, <<T_note, None>>,
                <<<<T_callBob, Num(T_123)>>, <<T_Alice, NaN>>>>)

Pdf1 == PdfFile(<<Page(<<TextBlock(<<Line(<<Span(T_Alice, 10)>>),
                                    Line(<<Span(T_callBob, 14)>>)>>)>>),
                  Page(<<TextBlock(<<Line(<<Span(T_Alice, 9)>>)>>)>>)>>)

OtherFile == [kind |-> "docx"]

\* a file that makes the request body longer than MAX_CONTENT_LENGTH
\* (16 MB, line 13)
OversizeFile == [kind |-> "oversize"]

\* ------------------------------------------------------------ requests

\* What a POST /upload carries: whether the form has a 'pdf_file' part, the
\* part's filename and content, and the two text fields as sent.
Upload(has_file, filename, content) ==
    [has_file |-> has_file, filename |-> filename, content |-> content]

Uploads ==
    { Upload(TRUE, F_data_csv, Csv1),
      Upload(TRUE, F_DATA_CSV, Csv1),
      Upload(TRUE, F_x_csv_csv, Csv1),
      Upload(TRUE, F_data_csv, EmptyFile),
      Upload(TRUE, F_my_r_xml, Xml1),
      Upload(TRUE, F_t_xpt, Xpt1),
      Upload(TRUE, F_p_pdf, Pdf1),
      Upload(TRUE, F_P_PDF, Pdf1),
      Upload(TRUE, F_x_docx, OtherFile),
      Upload(TRUE, <<>>, Csv1),
      Upload(FALSE, <<>>, EmptyFile) }

\* the posts clients send: every upload with a search text that has
\* something in it, a good upload with a blank or missing search text, and
\* bodies over the size limit
Post(u, old_text, new_text) ==
    [has_file |-> u.has_file, filename |-> u.filename, content |-> u.content,
     old_text |-> old_text, new_text |-> new_text]

Posts ==
    {Post(u, T_padBob, T_Carol) : u \in Uploads}
    \cup {Post(Upload(TRUE, F_data_csv, Csv1), o, T_Carol) : o \in {T_blank, <<>>}}
    \cup {Post(Upload(TRUE, F_x_docx, OversizeFile), T_padBob, T_Carol),
          Post(Upload(TRUE, F_data_csv, OversizeFile), T_blank, T_Carol)}

Reqs == 1..NumRequests

NoReq == [has_file |-> FALSE, filename |-> <<>>, content |-> EmptyFile,
          old_text |-> <<>>, new_text |-> <<>>]

NoResponse == [kind |-> "none"]
NoLocals == [old_text |-> <<>>, new_text |-> <<>>, filename |-> <<>>,
             file_path |-> <<>>, output_path |-> <<>>, ext |-> <<>>,
             response |-> NoResponse]

\* uuid.uuid4(): 122 random bits, taken to differ from every value drawn
\* before.  The values are opaque, so the next unused one stands for any.
Uuid(i) == "uuid-" \o ToString(i)
\* Faulty variant: a generator that repeats itself.
Uuid4Repeating(used) == {Uuid(1)}
Uuid4(used) == {Uuid(Cardinality(used) + 1)}

VARIABLES
    pc,        \* per request: where its handler stands
    req,       \* per request: what the client sent
    loc,       \* per request: the handler's local variables
    resp,      \* per request: the responses the handler returned, in order
    timer,     \* per request: the cleanup timer: "none", "armed" or "fired"
    disk,      \* the files on disk: path -> content
    uuids,     \* the uuids generated so far
    calls,     \* per request: the replacer invocations, in order
    fslog,     \* every file operation so far: [req, op, path]
    doc_pc, doc_in, doc_old, doc_new, doc_out,  \* one replacer run on its own
    doc_visited,  \* the elements the XML walk was called on, in call order
    doc_calls     \* the page calls of the PDF replacer, in call order

vars == <<pc, req, loc, resp, timer, disk, uuids, calls, fslog,
          doc_pc, doc_in, doc_old, doc_new, doc_out, doc_visited, doc_calls>>

web_vars == <<pc, req, loc, resp, timer, disk, uuids, calls, fslog>>
doc_vars == <<doc_pc, doc_in, doc_old, doc_new, doc_out, doc_visited, doc_calls>>

\* ------------------------------------------------------------- the disk

Exists(d, path) == path \in DOMAIN d
DiskWrite(d, path, content) == [p \in DOMAIN d \cup {path} |->
                                  IF p = path THEN content ELSE d[p]]
\* os.remove(path) of an existing file
DiskRemove(d, path) == [p \in DOMAIN d \ {path} |-> d[p]]
\* os.remove(path) raises: the file is not there or cannot be removed
OsRemoveRaises(d, path, unremovable) == ~Exists(d, path) \/ unremovable

FsOp(r, op, path) == [req |-> r, op |-> op, path |-> path]

\* ------------------------------------------------------------ responses

\* jsonify({'error': ...}), status
JsonError(status, error, detail) ==
    [status |-> status, kind |-> "error", error |-> error, detail |-> detail,
     body |-> EmptyFile, download_name |-> <<>>]

\* send_file(output_path, as_attachment=True, download_name=...), lines 147-152
SendFile(body, download_name) ==
    [status |-> 200, kind |-> "attachment", error |-> "", detail |-> <<>>,
     body |-> body, download_name |-> download_name]

\* ------------------------------------------------------------- dispatch

\* lines 134-141: the document kind each replacer reads
KindFor(ext) ==
    CASE ext = S_pdf -> "pdf"
      [] ext = S_csv -> "csv"
      [] ext = S_xml -> "xml"
      [] ext = S_xpt -> "xpt"
      [] OTHER -> "none"

\* the content the replacer selected for ext writes for a readable file
ReplacerOutput(ext, file, old_text, new_text) ==
    CASE ext = S_pdf -> ReplaceTextInPdf(file, old_text, new_text)
      [] ext = S_csv -> ReplaceTextInCsv(file, old_text, new_text)
      [] ext = S_xml -> ReplaceTextInXml(file, old_text, new_text)
      [] ext = S_xpt -> ReplaceTextInXpt(file, old_text, new_text)

\* what a writer that raised part-way leaves behind
PartialFile == [kind |-> "partial"]

\* pdf_document.save(output_path), line 59: PyMuPDF refuses to save a
\* document over the file it was opened from unless asked to save
\* incrementally, and raises
SaveRaises(ext, input_path, output_path) ==
    ext = S_pdf /\ output_path = input_path

\* --------------------------------------------------- the request handler

Init ==
    /\ pc = [r \in Reqs |-> "idle"]
    /\ req = [r \in Reqs |-> NoReq]
    /\ loc = [r \in Reqs |-> NoLocals]
    /\ resp = [r \in Reqs |-> <<>>]
    /\ timer = [r \in Reqs |-> "none"]
    /\ disk = <<>>
    /\ uuids = {}
    /\ calls = [r \in Reqs |-> <<>>]
    /\ fslog = {}
    /\ doc_pc = "off"
    /\ doc_in = EmptyFile
    /\ doc_old = <<>>
    /\ doc_new = <<>>
    /\ doc_out = EmptyFile
    /\ doc_visited = <<>>
    /\ doc_calls = <<>>

\* a client posts to /upload
Receive(r) ==
    /\ pc[r] = "idle"
    /\ \E p \in Posts : req' = [req EXCEPT ![r] = p]
    /\ pc' = [pc EXCEPT ![r] = "received"]
    /\ UNCHANGED <<loc, resp, timer, disk, uuids, calls, fslog>>
    /\ UNCHANGED doc_vars

\* the handler returns response x (the function's return value)
Return(r, x) ==
    /\ resp' = [resp EXCEPT ![r] = Append(@, x)]
    /\ pc' = [pc EXCEPT ![r] = "returned"]

\* Faulty variant: the failed processing is tried again.
OnExceptionRetry(r, message) ==
    /\ pc' = [pc EXCEPT ![r] = "saved"]
    /\ UNCHANGED resp

\* lines 168-169: "except Exception as e": any exception raised in the
\* handler becomes the 500 response carrying str(e)
OnException(r, message) == Return(r, JsonError(500, "exception", message))

\* request.files, line 112, is the first read of the form: werkzeug raises
\* RequestEntityTooLarge there when the body is longer than
\* MAX_CONTENT_LENGTH
RequestTooLarge(q) == q.content = OversizeFile

\* Faulty variant: the upload is left behind.
RemoveUploadSkipped(d, file_path) == d

\* line 143: os.remove(file_path) on the unsupported-extension path
RemoveUpload(d, file_path) == DiskRemove(d, file_path)

\* Faulty variant: the search text is not checked.
ValidateSkipTextCheck(r) ==
    /\ pc[r] = "received"
    /\ IF RequestTooLarge(req[r])
       THEN OnException(r, <<"4", "1", "3">>) /\ UNCHANGED loc
       ELSE IF ~req[r].has_file
       THEN Return(r, JsonError(400, "No file uploaded", <<>>)) /\ UNCHANGED loc
       ELSE IF req[r].filename = <<>>
       THEN Return(r, JsonError(400, "No file selected", <<>>)) /\ UNCHANGED loc
       ELSE /\ loc' = [loc EXCEPT ![r].old_text = StrStrip(req[r].old_text),
                                  ![r].new_text = StrStrip(req[r].new_text)]
            /\ pc' = [pc EXCEPT ![r] = "validated"]
            /\ UNCHANGED resp
    /\ UNCHANGED <<req, timer, disk, uuids, calls, fslog>>
    /\ UNCHANGED doc_vars

\* lines 111-123: the checks before anything is saved; reading the form of
\* a body over the size limit raises inside the try, and lines 168-169
\* answer
Validate(r) ==
    /\ pc[r] = "received"
    /\ IF RequestTooLarge(req[r])
       THEN OnException(r, <<"4", "1", "3">>) /\ UNCHANGED loc
       ELSE IF ~req[r].has_file
       THEN Return(r, JsonError(400, "No file uploaded", <<>>)) /\ UNCHANGED loc
       ELSE IF req[r].filename = <<>>
       THEN Return(r, JsonError(400, "No file selected", <<>>)) /\ UNCHANGED loc
       ELSE IF StrStrip(req[r].old_text) = <<>>
       THEN Return(r, JsonError(400, "Text to find is required", <<>>)) /\ UNCHANGED loc
       ELSE /\ loc' = [loc EXCEPT ![r].old_text = StrStrip(req[r].old_text),
                                  ![r].new_text = StrStrip(req[r].new_text)]
            /\ pc' = [pc EXCEPT ![r] = "validated"]
            /\ UNCHANGED resp
    /\ UNCHANGED <<req, timer, disk, uuids, calls, fslog>>
    /\ UNCHANGED doc_vars

\* lines 126-129: the upload is saved under a generated name, unless
\* file.save raises: before the file is opened (the uploads directory gone
\* or not writable, the name too long for the file system), and nothing is
\* saved, or while it is written (the disk full), and a part of the upload
\* stays at file_path; lines 168-169 answer
Save(r) ==
    /\ pc[r] = "validated"
    /\ \E u \in Uuid4(uuids), written \in {"all", "part", "none"} :
          LET filename == SecureFilename(req[r].filename)
              file_path == FilePath(u, filename)
          IN  /\ uuids' = uuids \cup {u}
              /\ loc' = [loc EXCEPT ![r].filename = filename,
                                    ![r].file_path = file_path]
              /\ IF written = "none"
                 THEN /\ OnException(r, <<"s", "a", "v", "e">>)
                      /\ UNCHANGED <<disk, fslog>>
                 ELSE IF written = "part"
                 THEN /\ OnException(r, <<"s", "a", "v", "e">>)
                      /\ disk' = DiskWrite(disk, file_path, PartialFile)
                      /\ fslog' = fslog \cup {FsOp(r, "write", file_path)}
                 ELSE /\ disk' = DiskWrite(disk, file_path, req[r].content)
                      /\ fslog' = fslog \cup {FsOp(r, "write", file_path)}
                      /\ pc' = [pc EXCEPT ![r] = "saved"]
                      /\ UNCHANGED resp
    /\ UNCHANGED <<req, timer, calls>>
    /\ UNCHANGED doc_vars

\* lines 132-144 and the except clause of lines 168-169: the extension
\* selects a replacer, which runs to its end or raises; any other extension
\* removes the upload and is refused
Process(r) ==
    /\ pc[r] = "saved"
    /\ \E written \in {"all", "part", "none"} :
       LET ext == ExtOf(loc[r].filename)
           file_path == loc[r].file_path
           readable == Exists(disk, file_path) /\ disk[file_path].kind = KindFor(ext)
           output_path == OutputPath(file_path, ext)
           saved == written = "all" /\ ~SaveRaises(ext, file_path, output_path)
           partial == written = "part" /\ ~SaveRaises(ext, file_path, output_path)
       IN
       IF ext \in Supported
       THEN /\ calls' = [calls EXCEPT ![r] =
                           Append(@, [fn |-> KindFor(ext),
                                      outcome |-> IF readable /\ saved
                                                  THEN "returned" ELSE "raised",
                                      input_path |-> file_path,
                                      output_path |-> output_path,
                                      old_text |-> loc[r].old_text,
                                      new_text |-> loc[r].new_text])]
            /\ IF ~readable
               THEN \* the reader raises
                    /\ OnException(r, <<"r", "e", "a", "d">>)
                    /\ fslog' = fslog \cup {FsOp(r, "read", file_path)}
                    /\ loc' = [loc EXCEPT ![r].ext = ext]
                    /\ UNCHANGED disk
               ELSE IF ~saved
               THEN \* the writer raises, with nothing written or with a part
                    \* of the output left at output_path
                    /\ OnException(r, <<"w", "r", "i", "t", "e">>)
                    /\ fslog' = fslog \cup {FsOp(r, "read", file_path)}
                                  \cup (IF partial
                                        THEN {FsOp(r, "write", output_path)}
                                        ELSE {})
                    /\ loc' = [loc EXCEPT ![r].ext = ext]
                    /\ disk' = IF partial
                               THEN DiskWrite(disk, output_path, PartialFile)
                               ELSE disk
               ELSE /\ disk' = DiskWrite(disk, output_path,
                                  ReplacerOutput(ext, disk[file_path],
                                                 loc[r].old_text, loc[r].new_text))
                    /\ fslog' = fslog \cup {FsOp(r, "read", file_path),
                                            FsOp(r, "write", output_path)}
                    /\ loc' = [loc EXCEPT ![r].ext = ext,
                                          ![r].output_path = output_path]
                    /\ pc' = [pc EXCEPT ![r] = "replaced"]
                    /\ UNCHANGED resp
       ELSE /\ loc' = [loc EXCEPT ![r].ext = ext]
            /\ UNCHANGED calls
            /\ \E unremovable \in BOOLEAN :
               IF OsRemoveRaises(disk, file_path, unremovable)
               THEN \* os.remove raises: lines 168-169 answer
                    /\ UNCHANGED disk
                    /\ fslog' = fslog \cup {FsOp(r, "remove_failed", file_path)}
                    /\ OnException(r, <<"r", "e", "m", "o", "v", "e">>)
               ELSE /\ disk' = RemoveUpload(disk, file_path)
                    /\ fslog' = fslog \cup {FsOp(r, "remove", file_path)}
                    /\ Return(r, JsonError(400, "Unsupported file type: ", ext))
    /\ UNCHANGED <<req, timer, uuids>>
    /\ UNCHANGED doc_vars

\* Faulty variant: the timer is created and never started.
ScheduleCleanupNotStarted(t, r) == t
\* threading.Timer(10.0, remove_files).start(), line 164
ScheduleCleanup(t, r) == [t EXCEPT ![r] = "armed"]

\* lines 147-164: send_file opens the output file and builds the response,
\* and the cleanup timer is started; the handler has not returned yet
Respond(r) ==
    /\ pc[r] = "replaced"
    /\ IF Exists(disk, loc[r].output_path)
       THEN /\ loc' = [loc EXCEPT ![r].response =
                          SendFile(disk[loc[r].output_path],
                                   S_modified_ \o loc[r].filename)]
            /\ timer' = ScheduleCleanup(timer, r)
            /\ pc' = [pc EXCEPT ![r] = "scheduled"]
            /\ UNCHANGED resp
       ELSE /\ OnException(r, <<"o", "p", "e", "n">>)
            /\ UNCHANGED <<loc, timer>>
    /\ fslog' = fslog \cup {FsOp(r, "read", loc[r].output_path)}
    /\ UNCHANGED <<req, disk, uuids, calls>>
    /\ UNCHANGED doc_vars

\* line 166: return response, a statement of its own after the timer was
\* started; the timer's thread runs beside it
ReturnResponse(r) ==
    /\ pc[r] = "scheduled"
    /\ Return(r, loc[r].response)
    /\ UNCHANGED <<req, loc, timer, disk, uuids, calls, fslog>>
    /\ UNCHANGED doc_vars

\* the server sends the returned response to the client
Deliver(r) ==
    /\ pc[r] = "returned"
    /\ pc' = [pc EXCEPT ![r] = "done"]
    /\ UNCHANGED <<req, loc, resp, timer, disk, uuids, calls, fslog>>
    /\ UNCHANGED doc_vars

\* what can keep os.remove from removing a file that exists when the timer
\* runs: nothing, or the input file, or the output file being unremovable
RemovalFailures == {"none", "input", "output"}

\* Faulty variant: each removal in a try block of its own.
RemoveFilesSeparateBlocks(d, file_path, output_path, fail) ==
    LET d1 == IF OsRemoveRaises(d, file_path, fail = "input")
              THEN d ELSE DiskRemove(d, file_path)
    IN  IF OsRemoveRaises(d1, output_path, fail = "output")
        THEN d1 ELSE DiskRemove(d1, output_path)

\* the body of remove_files, lines 156-160, on the disk: the two removals in
\* one try block, the first to raise ending it silently
RemoveFilesOn(d, file_path, output_path, fail) ==
    IF OsRemoveRaises(d, file_path, fail = "input") THEN d
    ELSE LET d1 == DiskRemove(d, file_path)
         IN  IF OsRemoveRaises(d1, output_path, fail = "output")
             THEN d1 ELSE DiskRemove(d1, output_path)

\* remove_files, lines 155-160, run by the timer
RemoveFiles(r) ==
    /\ timer[r] = "armed"
    /\ timer' = [timer EXCEPT ![r] = "fired"]
    /\ \E fail \in RemovalFailures :
       LET file_path == loc[r].file_path
           output_path == loc[r].output_path
           first_raises == OsRemoveRaises(disk, file_path, fail = "input")
           second_raises == OsRemoveRaises(DiskRemove(disk, file_path),
                                           output_path, fail = "output")
       IN  /\ disk' = RemoveFilesOn(disk, file_path, output_path, fail)
           /\ fslog' = fslog
                \cup {FsOp(r, IF first_raises THEN "remove_failed" ELSE "remove",
                           file_path)}
                \cup (IF first_raises THEN {}
                      ELSE {FsOp(r, IF second_raises THEN "remove_failed" ELSE "remove",
                                 output_path)})
    /\ UNCHANGED <<pc, req, loc, resp, uuids, calls>>
    /\ UNCHANGED doc_vars

Next ==
    \E r \in Reqs :
        \/ Receive(r)
        \/ Validate(r)
        \/ Save(r)
        \/ Process(r)
        \/ Respond(r)
        \/ ReturnResponse(r)
        \/ Deliver(r)
        \/ RemoveFiles(r)

Spec == Init /\ [][Next]_vars

\* ------------------------------------------ one replacer run on its own

\* sequences over S of length 0..n
SeqsUpTo(S, n) == UNION {[1..k -> S] : k \in 0..n}

T_N == <<"N">>

DocOldTexts == {T_Bob, T_2, T_N}
DocNewTexts == {T_Carol, T_BobBob, <<>>, T_2}

\* CSV files: two columns, up to MaxRows rows; the header may itself contain
\* the search text, name a column twice or leave a column unnamed
CsvRowPool == {<<a, b>> : a \in {T_Alice, T_Bob, T_NA},
                          b \in {T_callBob, T_123, <<>>, T_BobBob}}

CsvInputs == {CsvFile(h, rows) : h \in {<<T_name, T_note>>, <<T_Bob, T_123>>,
                                        <<T_name, T_name>>, <<T_name, <<>>>>},
                                 rows \in SeqsUpTo(CsvRowPool, MaxRows)}

\* XML files: a root with up to MaxChildren children, the first child with
\* or without a child of its own; every element has two attributes
XmlChildPool == {Elem(T_row, text, tail, <<<<T_id, v>>, <<T_note, T_callBob>>>>, <<>>) :
                    text \in {T_callBob, None}, tail \in {T_Bob, None},
                    v \in {T_Bob, T_123}}

XmlTree(root_text, kids, nested) ==
    LET k == Len(kids)
        n == 1 + k + (IF nested /\ k > 0 THEN 1 ELSE 0)
    IN  [e \in 1..n |->
           IF e = 1
           THEN Elem(T_rows, root_text, None, <<<<T_id, T_BobBob>>>>,
                     [i \in 1..k |-> i + 1])
           ELSE IF e <= k + 1
           THEN [kids[e - 1] EXCEPT
                   !.children = IF e = 2 /\ nested THEN <<k + 2>> ELSE <<>>]
           ELSE Elem(T_Bob, T_BobBob, T_123, <<<<T_Bob, T_Bob>>>>, <<>>)]

XmlInputs == {XmlFile(d, XmlTree(t, kids, nested)) :
                 d \in BOOLEAN, t \in {None, T_callBob},
                 kids \in SeqsUpTo(XmlChildPool, MaxChildren), nested \in BOOLEAN}

\* transport files: version 5 or 8, two variables, with or without labels
XptRowPool == {<<a, b>> : a \in {T_callBob, T_Alice, <<>>}, b \in {Num(T_123), NaN}}

XptInputs == {XptFile(v, T_rows, <<T_name, T_id>>, labels, rows) :
                 v \in {5, 8}, labels \in {<<T_note, None>>, <<None, None>>},
                 rows \in SeqsUpTo(XptRowPool, MaxRows)}

DocInit ==
    /\ pc = [r \in Reqs |-> "idle"]
    /\ req = [r \in Reqs |-> NoReq]
    /\ loc = [r \in Reqs |-> NoLocals]
    /\ resp = [r \in Reqs |-> <<>>]
    /\ timer = [r \in Reqs |-> "none"]
    /\ disk = <<>>
    /\ uuids = {}
    /\ calls = [r \in Reqs |-> <<>>]
    /\ fslog = {}
    /\ doc_pc = "ready"
    /\ doc_in \in CsvInputs \cup XmlInputs \cup XptInputs
    /\ doc_old \in DocOldTexts
    /\ doc_new \in DocNewTexts
    /\ doc_out = EmptyFile
    /\ doc_visited = <<>>
    /\ doc_calls = <<>>

\* replace_text_in_csv(path, old_text, new_text) on a CSV file
RunCsv ==
    /\ doc_pc = "ready" /\ doc_in.kind = "csv"
    /\ doc_out' = ReplaceTextInCsv(doc_in, doc_old, doc_new)
    /\ doc_pc' = "done"
    /\ UNCHANGED <<doc_in, doc_old, doc_new, doc_visited, doc_calls>>
    /\ UNCHANGED web_vars

\* replace_text_in_xml(path, old_text, new_text) on an XML file
RunXml ==
    /\ doc_pc = "ready" /\ doc_in.kind = "xml"
    /\ LET st == XmlWalk(doc_in, doc_old, doc_new)
       IN  /\ doc_out' = XmlWrite(st.nodes)
           /\ doc_visited' = st.visited
    /\ doc_pc' = "done"
    /\ UNCHANGED <<doc_in, doc_old, doc_new, doc_calls>>
    /\ UNCHANGED web_vars

\* replace_text_in_xpt(path, old_text, new_text) on a transport file
RunXpt ==
    /\ doc_pc = "ready" /\ doc_in.kind = "xpt"
    /\ doc_out' = ReplaceTextInXpt(doc_in, doc_old, doc_new)
    /\ doc_pc' = "done"
    /\ UNCHANGED <<doc_in, doc_old, doc_new, doc_visited, doc_calls>>
    /\ UNCHANGED web_vars

\* PDF files: up to MaxPages pages of at most two different blocks each.
\* "bob" is found by the search for "Bob" and does not contain it; "Bo" and
\* "b" are two spans of one line; "call", "Bo-" and "b" are three lines, so
\* "Bob" is found there hyphenated and "call Bob" over two line breaks;
\* "BobBob" is one hit
T_bob == <<"b", "o", "b">>
T_Bo == <<"B", "o">>
T_b == <<"b">>
T_call == <<"c", "a", "l", "l">>
T_Bo_ == <<"B", "o", "-">>

SplitBlock ==
    TextBlock(<<Line(<<Span(T_Bo, 11), Span(T_b, 13)>>),
                Line(<<Span(T_call, 8)>>),
                Line(<<Span(T_Bo_, 11)>>),
                Line(<<Span(T_b, 13)>>)>>)

PdfBlockPool ==
    {ImageBlock,
     TextBlock(<<Line(<<Span(T_Alice, 10)>>)>>),
     TextBlock(<<Line(<<Span(T_bob, 9)>>), Line(<<Span(T_callBob, 14)>>)>>),
     SplitBlock,
     TextBlock(<<Line(<<Span(T_BobBob, 20)>>)>>)}

PdfPagePool == {Page(<<>>)} \cup {Page(<<x>>) : x \in PdfBlockPool}
                  \cup {Page(<<xy[1], xy[2]>>) :
                          xy \in {z \in PdfBlockPool \X PdfBlockPool : z[1] # z[2]}}

PdfInputs == {PdfFile(pages) : pages \in SeqsUpTo(PdfPagePool, MaxPages)}

PdfOldTexts == {T_Bob, T_callBob}
PdfNewTexts == {T_Carol}

PdfInit ==
    /\ pc = [r \in Reqs |-> "idle"]
    /\ req = [r \in Reqs |-> NoReq]
    /\ loc = [r \in Reqs |-> NoLocals]
    /\ resp = [r \in Reqs |-> <<>>]
    /\ timer = [r \in Reqs |-> "none"]
    /\ disk = <<>>
    /\ uuids = {}
    /\ calls = [r \in Reqs |-> <<>>]
    /\ fslog = {}
    /\ doc_pc = "ready"
    /\ doc_in \in PdfInputs
    /\ doc_old \in PdfOldTexts
    /\ doc_new \in PdfNewTexts
    /\ doc_out = EmptyFile
    /\ doc_visited = <<>>
    /\ doc_calls = <<>>

\* replace_text_in_pdf(path, old_text, new_text) on a PDF file
RunPdf ==
    /\ doc_pc = "ready" /\ doc_in.kind = "pdf"
    /\ doc_out' = ReplaceTextInPdf(doc_in, doc_old, doc_new)
    /\ doc_calls' = PdfCallsFrom(doc_in, doc_old, doc_new, 1)
    /\ doc_pc' = "done"
    /\ UNCHANGED <<doc_in, doc_old, doc_new, doc_visited>>
    /\ UNCHANGED web_vars

PdfNext == RunPdf

SpecPdf == PdfInit /\ [][PdfNext]_vars

DocNext == RunCsv \/ RunXml \/ RunXpt

SpecDoc == DocInit /\ [][DocNext]_vars

\* ------------------------------------------------- claims on the handler

\* the files request r has named so far: its upload and its output
Paths(r) == ({loc[r].file_path, loc[r].output_path} \ {<<>>})
                \cup {calls[r][i].output_path : i \in 1..Len(calls[r])}

Arrived(r) == pc[r] # "idle"
Finished(r) == pc[r] \in {"returned", "done"}

\* the extension of the name as the client sent it, letter case ignored: the
\* text from the last "." on
RawExt(name) ==
    IF \E i \in 1..Len(name) : name[i] = "."
    THEN LET last == CHOOSE i \in 1..Len(name) :
                        name[i] = "." /\ \A j \in (i + 1)..Len(name) : name[j] # "."
         IN  StrLower(SubSeq(name, last, Len(name)))
    ELSE <<>>

\* C1 (as claimed): whenever a replacer has run for a request, its output
\* path differs from the saved input path, is the input path with
\* "_modified" inserted once right before the extension, and the saved input
\* file still holds what was uploaded.
C1_OutputIsNewFile ==
    \A r \in Reqs :
        pc[r] = "replaced" =>
            LET inp == loc[r].file_path
                out == loc[r].output_path
                n == Len(loc[r].ext)
            IN  /\ out # inp
                /\ out = SubSeq(inp, 1, Len(inp) - n) \o S_modified
                           \o SubSeq(inp, Len(inp) - n + 1, Len(inp))
                /\ Exists(disk, inp)
                /\ disk[inp] = req[r].content

\* the request has the three things lines 112-123 ask for
FieldsPresent(r) ==
    /\ req[r].has_file
    /\ req[r].filename # <<>>
    /\ \E i \in 1..Len(req[r].old_text) : ~IsSpace(req[r].old_text[i])

\* the request got past lines 112-123: its body is within the size limit
\* and it has the three things
PassesChecks(r) == ~RequestTooLarge(req[r]) /\ FieldsPresent(r)

WroteFile(r) == \E op \in fslog : op.req = r /\ op.op = "write"

\* C2 (as claimed): for a request whose extension is none of the four, no
\* file is written at any point while it is handled.
C2_NeverWritesUnsupported ==
    \A r \in Reqs :
        (Arrived(r) /\ RawExt(req[r].filename) \notin Supported) => ~WroteFile(r)

\* the extension the handler dispatches on: that of the sanitized name
SanitizedExt(r) ==
    LET name == SecureFilename(req[r].filename)
    IN  IF \E i \in 1..Len(name) : name[i] = "." THEN RawExt(name) ELSE <<>>

\* C2 (amended): a request within the size limit that passes the file and
\* search-text checks and whose extension (of the sanitized name) is none of
\* the four never has a replacer invoked and writes no file but its upload.
\* The upload is saved before the extension is looked at and removed again
\* before the answer: the request ends with the one 400 response naming that
\* extension and none of its files on disk, unless saving or removing the
\* upload raised; then it ends with the one 500 response, with nothing or a
\* part of the upload on disk in the first case and the whole upload left
\* on disk in the second.
C2_UnsupportedRejectedAndRemoved ==
    \A r \in Reqs :
        (Finished(r) /\ PassesChecks(r) /\ SanitizedExt(r) \notin Supported)
        => /\ Len(resp[r]) = 1
           /\ resp[r][1].kind = "error"
           /\ calls[r] = <<>>
           /\ \A op \in fslog :
                 (op.req = r /\ op.op = "write") => op.path = loc[r].file_path
           /\ \/ /\ resp[r][1].status = 400
                 /\ resp[r][1].detail = SanitizedExt(r)
                 /\ WroteFile(r)
                 /\ FsOp(r, "remove", loc[r].file_path) \in fslog
                 /\ \A p \in Paths(r) : ~Exists(disk, p)
                 /\ \A p \in DOMAIN disk : \E q \in Reqs \ {r} : p \in Paths(q)
              \/ /\ resp[r][1].status = 500
                 /\ ~WroteFile(r)
                 /\ \A p \in Paths(r) : ~Exists(disk, p)
                 /\ \A p \in DOMAIN disk : \E q \in Reqs \ {r} : p \in Paths(q)
              \/ /\ resp[r][1].status = 500
                 /\ WroteFile(r)
                 /\ \A op \in fslog : op.req = r => op.op = "write"
                 /\ Exists(disk, loc[r].file_path)
                 /\ disk[loc[r].file_path] = PartialFile
              \/ /\ resp[r][1].status = 500
                 /\ WroteFile(r)
                 /\ FsOp(r, "remove_failed", loc[r].file_path) \in fslog
                 /\ Exists(disk, loc[r].file_path)
                 /\ disk[loc[r].file_path] = req[r].content

C2_Witness ==
    \E r \in Reqs :
        /\ Finished(r) /\ PassesChecks(r)
        /\ req[r].filename = F_x_docx
        /\ WroteFile(r)
        /\ resp[r][1].detail = <<".", "d", "o", "c", "x">>

\* C3 (as claimed): a request without file part, with an empty filename or
\* with a search text that is blank is answered 400 without any file written
\* and without a replacer invoked; and no replacer is ever invoked with an
\* empty old_text.
C3_RejectedBeforeSave ==
    /\ \A r \in Reqs :
          (Arrived(r) /\ ~FieldsPresent(r))
          => /\ ~WroteFile(r)
             /\ calls[r] = <<>>
             /\ pc[r] \in {"received", "returned", "done"}
             /\ Finished(r) => /\ Len(resp[r]) = 1
                               /\ resp[r][1].status = 400
                               /\ resp[r][1].kind = "error"
    /\ \A r \in Reqs : \A i \in 1..Len(calls[r]) : calls[r][i].old_text # <<>>

\* C3 (amended): a request within the size limit without file part, with an
\* empty filename or with a search text that is blank is answered 400
\* without any file written and without a replacer invoked; a request over
\* the size limit is answered 500 at the first read of the form, whatever
\* it lacks, also with no file written and no replacer invoked; and no
\* replacer is ever invoked with an empty old_text.
C3_RejectedWithinLimit ==
    /\ \A r \in Reqs :
          (Arrived(r) /\ ~PassesChecks(r))
          => /\ ~WroteFile(r)
             /\ calls[r] = <<>>
             /\ pc[r] \in {"received", "returned", "done"}
             /\ Finished(r) => /\ Len(resp[r]) = 1
                               /\ resp[r][1].kind = "error"
                               /\ resp[r][1].status =
                                     IF RequestTooLarge(req[r]) THEN 500 ELSE 400
    /\ \A r \in Reqs : \A i \in 1..Len(calls[r]) : calls[r][i].old_text # <<>>

C3_Witness ==
    /\ \E r \in Reqs :
          /\ Finished(r) /\ req[r].has_file /\ req[r].filename = F_data_csv
          /\ req[r].old_text = T_blank
          /\ resp[r][1].error = "Text to find is required"
    /\ \E r \in Reqs : Len(calls[r]) = 1 /\ calls[r][1].old_text = T_Bob

\* C4: a request gets at most one response, and exactly one once its handler
\* has returned: the attachment, or an error with a reason.  When the
\* replacer raised, that response is the 500 error carrying the message, no
\* attachment, and the replacer was invoked that one time only.
C4_OneResponse ==
    \A r \in Reqs :
        /\ Len(resp[r]) <= 1
        /\ Len(calls[r]) <= 1
        /\ Finished(r) <=> Len(resp[r]) = 1
        /\ \A i \in 1..Len(resp[r]) :
              \/ /\ resp[r][i].kind = "attachment"
                 /\ resp[r][i].status = 200
                 /\ resp[r][i].body # EmptyFile
              \/ /\ resp[r][i].kind = "error"
                 /\ resp[r][i].status \in {400, 500}
                 /\ resp[r][i].error # ""
                 /\ resp[r][i].body = EmptyFile
        /\ (\E i \in 1..Len(calls[r]) : calls[r][i].outcome = "raised")
           => /\ Finished(r)
              /\ resp[r][1].kind = "error"
              /\ resp[r][1].status = 500
              /\ resp[r][1].detail # <<>>
              /\ timer[r] = "none"

C4_Witness ==
    /\ \E r \in Reqs : /\ pc[r] = "done"
                       /\ Len(calls[r]) = 1 /\ calls[r][1].outcome = "raised"
                       /\ req[r].content = EmptyFile
                       /\ resp[r][1].status = 500
    /\ \E r \in Reqs : pc[r] = "done" /\ resp[r][1].kind = "attachment"

\* C10: two requests never name the same file, whether upload or output, and
\* every file operation of a request is on one of its own files, never on a
\* file of another request: cross-request isolation.
C10_RequestsDisjoint ==
    /\ \A r1, r2 \in Reqs : r1 # r2 => Paths(r1) \cap Paths(r2) = {}
    /\ \A op \in fslog :
          /\ op.path \in Paths(op.req)
          /\ \A r \in Reqs \ {op.req} : op.path \notin Paths(r)
    /\ \A r \in Reqs :
          (pc[r] \in {"saved", "replaced"}) =>
             /\ Exists(disk, loc[r].file_path)
             /\ pc[r] = "saved" => disk[loc[r].file_path] = req[r].content

C10_Witness ==
    \E r1, r2 \in Reqs :
        /\ r1 # r2
        /\ req[r1].filename = req[r2].filename
        /\ pc[r1] = "replaced" /\ pc[r2] = "replaced"
        /\ loc[r1].output_path # loc[r2].output_path

\* ------------------------------------------------ claims on the replacers

\* What "every occurrence of old replaced by new" means, position by
\* position: an occurrence is taken when no taken occurrence to its left
\* covers its first character; a taken occurrence yields new, the other
\* characters it covers yield nothing, every other character stays.
Taken(s, old) ==
    LET pick[i \in 0..Len(s)] ==
            IF i = 0 THEN {}
            ELSE IF OccursAt(s, old, i) /\ \A j \in pick[i - 1] : j + Len(old) <= i
                 THEN pick[i - 1] \cup {i}
                 ELSE pick[i - 1]
    IN  pick[Len(s)]

Substituted(s, old, new) ==
    LET taken == Taken(s, old)
        piece[i \in 0..Len(s)] ==
            IF i = 0 THEN <<>>
            ELSE piece[i - 1] \o
                 (IF i \in taken THEN new
                  ELSE IF \E j \in taken : j < i /\ i < j + Len(old) THEN <<>>
                  ELSE <<s[i]>>)
    IN  piece[Len(s)]

AllDigits(x) == x # <<>> /\ \A i \in 1..Len(x) : x[i] \in Range(DigitChars)

CsvDone == doc_pc = "done" /\ doc_in.kind = "csv"
XmlDone == doc_pc = "done" /\ doc_in.kind = "xml"
XptDone == doc_pc = "done" /\ doc_in.kind = "xpt"

\* C5 (as claimed): the CSV written has the header of the input, name by
\* name and in order, even where a name contains old_text, and as many rows
\* of as many cells; every cell that is not a null marker is the input cell with each
\* occurrence of old_text replaced by new_text and every other character
\* kept, so a cell equal to old_text becomes new_text.
C5_CsvCellsReplaced ==
    CsvDone =>
        /\ doc_out.kind = "csv"
        /\ doc_out.header = doc_in.header
        /\ Len(doc_out.rows) = Len(doc_in.rows)
        /\ \A r \in 1..Len(doc_in.rows) :
              /\ Len(doc_out.rows[r]) = Len(doc_in.rows[r])
              /\ \A c \in 1..Len(doc_in.rows[r]) :
                    LET x == doc_in.rows[r][c]
                        y == doc_out.rows[r][c]
                    IN  x \notin NaValues =>
                           /\ y = Substituted(x, doc_old, doc_new)
                           /\ x = doc_old => y = doc_new
                           /\ ~StrContains(x, doc_old) => y = x

\* C6 (as claimed): a cell that looks numeric or is null or empty comes out
\* of the CSV replacer as it went in, whatever the search text.
C6_NumericAndNullUntouched ==
    CsvDone =>
        \A r \in 1..Len(doc_in.rows) : \A c \in 1..Len(doc_in.rows[r]) :
            LET x == doc_in.rows[r][c]
            IN  (AllDigits(x) \/ x = <<>>) => doc_out.rows[r][c] = x

\* C6 (amended): a null or empty cell is not touched by the replacement,
\* whatever the search text, and is written as an empty cell; a cell that
\* looks numeric is text like any other: it stays as it is when it does not
\* contain old_text, and otherwise has every occurrence replaced, which
\* changes it unless new_text is old_text itself.
C6_NullUntouchedNumericIsText ==
    CsvDone =>
        \A r \in 1..Len(doc_in.rows) : \A c \in 1..Len(doc_in.rows[r]) :
            LET x == doc_in.rows[r][c]
                y == doc_out.rows[r][c]
            IN  /\ x \in NaValues => y = <<>>
                /\ AllDigits(x) =>
                      /\ y = Substituted(x, doc_old, doc_new)
                      /\ ~StrContains(x, doc_old) => y = x
                      /\ (StrContains(x, doc_old) /\ doc_new # doc_old) => y # x
                      /\ doc_new = doc_old => y = x

C6_Witness ==
    /\ CsvDone
    /\ doc_old = T_2 /\ doc_new = T_Carol
    /\ doc_in.rows = <<<<T_NA, T_123>>, <<T_Alice, <<>>>>>>
    /\ doc_out.rows = <<<<<<>>, <<"1">> \o T_Carol \o <<"3">>>>, <<T_Alice, <<>>>>>>

\* a text, tail or attribute value after the walk: changed only if the value
\* itself contains old_text, and then into the value with every occurrence
\* replaced
FieldAfter(v, old, new) ==
    IF v # None /\ StrContains(v, old) THEN Substituted(v, old, new) ELSE v

\* the position of element e in the order of visits (0 if never visited)
VisitIndex(e) ==
    IF \E i \in 1..Len(doc_visited) : doc_visited[i] = e
    THEN CHOOSE i \in 1..Len(doc_visited) : doc_visited[i] = e
    ELSE 0

\* C7: the XML written has the elements of the input, with their tags,
\* attribute names, children and order; each text, tail and attribute value
\* is the input's unless it contains old_text, in which case it is the value
\* with every occurrence replaced; every element, the root and every
\* descendant, is visited exactly once, a parent before its children.
C7_XmlStructureKept ==
    XmlDone =>
        LET a == doc_in.nodes
            b == doc_out.nodes
        IN  /\ doc_out.kind = "xml"
            /\ DOMAIN b = DOMAIN a
            /\ \A e \in DOMAIN a :
                  /\ b[e].tag = a[e].tag
                  /\ b[e].children = a[e].children
                  /\ b[e].text = FieldAfter(a[e].text, doc_old, doc_new)
                  /\ b[e].tail = FieldAfter(a[e].tail, doc_old, doc_new)
                  /\ Len(b[e].attrib) = Len(a[e].attrib)
                  /\ \A i \in 1..Len(a[e].attrib) :
                        /\ b[e].attrib[i][1] = a[e].attrib[i][1]
                        /\ b[e].attrib[i][2] =
                              FieldAfter(a[e].attrib[i][2], doc_old, doc_new)
            /\ Len(doc_visited) = Len(a)
            /\ \A e \in DOMAIN a :
                  Cardinality({i \in 1..Len(doc_visited) : doc_visited[i] = e}) = 1
            /\ \A e \in DOMAIN a : \A k \in 1..Len(a[e].children) :
                  VisitIndex(e) < VisitIndex(a[e].children[k])

\* a tree three levels deep whose tag names, attribute names and values all
\* contain the search text
C7_Witness ==
    /\ XmlDone
    /\ doc_old = T_Bob /\ doc_new = T_Carol
    /\ Len(doc_in.nodes) = 4
    /\ doc_in.nodes[2].children = <<4>>
    /\ doc_visited = <<1, 2, 4, 3>>
    /\ doc_out.nodes[4] = Elem(T_Bob, T_Carol \o T_Carol, T_123, <<<<T_Bob, T_Carol>>>>, <<>>)
    /\ doc_in.nodes[3].attrib[1][2] = T_123
    /\ doc_out.nodes[3].attrib = <<<<T_id, T_123>>, <<T_note, T_callCarol>>>>

\* C8 (as claimed): the transport file written has the format version, the
\* table name and the variable labels of the file read.
C8_XptMetadataKept ==
    XptDone =>
        /\ doc_out.version = doc_in.version
        /\ doc_out.table_name = doc_in.table_name
        /\ doc_out.labels = doc_in.labels

\* whether old occurs in the document: in a data cell, or in an element's
\* text, tail or attribute value
OccursInDoc(file, old) ==
    CASE file.kind = "csv" ->
            \E r \in 1..Len(file.rows) : \E c \in 1..Len(file.rows[r]) :
                StrContains(file.rows[r][c], old)
      [] file.kind = "xml" ->
            \E e \in DOMAIN file.nodes :
                \/ file.nodes[e].text # None /\ StrContains(file.nodes[e].text, old)
                \/ file.nodes[e].tail # None /\ StrContains(file.nodes[e].tail, old)
                \/ \E i \in 1..Len(file.nodes[e].attrib) :
                      StrContains(file.nodes[e].attrib[i][2], old)
      [] file.kind = "xpt" ->
            \E r \in 1..Len(file.data) : \E c \in 1..Len(file.data[r]) :
                IsStr(file.data[r][c]) /\ StrContains(file.data[r][c], old)

\* the content of a document: the header and cells, the element tree, the
\* variable names and values
Content(file) ==
    CASE file.kind = "csv" -> <<file.header, file.rows>>
      [] file.kind = "xml" -> <<file.nodes>>
      [] file.kind = "xpt" -> <<file.columns, file.data>>

\* C9 (as claimed): when old_text occurs nowhere in the document, the
\* content written equals the content read.
C9_AbsentMeansSameContent ==
    (doc_pc = "done" /\ ~OccursInDoc(doc_in, doc_old))
        => Content(doc_out) = Content(doc_in)

\* a CSV file that the reader and writer take round without loss: no cell
\* is a null marker other than the empty cell, and the reader takes the
\* header names as they are, none of them empty or repeated
CsvLossless(file) ==
    /\ \A r \in 1..Len(file.rows) : \A c \in 1..Len(file.rows[r]) :
          file.rows[r][c] \in NaValues => file.rows[r][c] = <<>>
    /\ ColumnNames(file.header) = file.header

\* C9 (amended): when old_text occurs nowhere in the document and, for a
\* CSV file, no cell is a non-empty null marker and no header name is empty
\* or repeated, the content written equals the content read, whatever
\* new_text is.
C9_AbsentAndLosslessMeansSameContent ==
    (/\ doc_pc = "done"
     /\ ~OccursInDoc(doc_in, doc_old)
     /\ doc_in.kind = "csv" => CsvLossless(doc_in))
        => /\ doc_out.kind = doc_in.kind
           /\ Content(doc_out) = Content(doc_in)

C9_Witness ==
    /\ CsvDone
    /\ doc_old = T_2 /\ doc_new = T_Carol
    /\ doc_in = CsvFile(<<T_name, T_note>>, <<<<T_Alice, T_callBob>>, <<T_Bob, <<>>>>>>)
    /\ doc_out = doc_in

\* the same for an XML file with two children, one nested, and for a
\* transport file of two rows: old_text is in no text, tail, attribute value
\* or cell, and the tree, or the variables and values, are written as read
C9_WitnessXml ==
    /\ XmlDone
    /\ doc_old = T_N /\ doc_new = T_Carol
    /\ Len(doc_in.nodes) = 4
    /\ ~OccursInDoc(doc_in, doc_old)
    /\ doc_out.kind = "xml"
    /\ Content(doc_out) = Content(doc_in)

C9_WitnessXpt ==
    /\ XptDone
    /\ doc_old = T_N /\ doc_new = T_Carol
    /\ doc_in.data = <<<<T_callBob, Num(T_123)>>, <<T_Alice, NaN>>>>
    /\ ~OccursInDoc(doc_in, doc_old)
    /\ doc_out.kind = "xpt"
    /\ Content(doc_out) = Content(doc_in)

(***************************************************************************)
(* The timed cleanup and the response                                      *)
(***************************************************************************)

\* the request took the success path: send_file built its response
Succeeded(r) ==
    /\ Finished(r)
    /\ resp[r] # <<>>
    /\ resp[r][1].kind = "attachment"

\* C11: for every successful request the cleanup that deletes the request's
\* files runs only after the response has been sent, so the timer never
\* fires while the handler has yet to return or the response is still on
\* its way to the client.
C11_CleanupAfterDelivery ==
    \A r \in Reqs : timer[r] = "fired" => pc[r] = "done"

(***************************************************************************)
(* The PDF replacer, page by page                                          *)
(***************************************************************************)

PdfDone == doc_pc = "done" /\ doc_in.kind = "pdf"

\* the matches of doc_old on page p of the input
Matches(p) == SearchFor(doc_in.pages[p], doc_old)

\* the positions in the call log of the calls of fn on page p
CallsOf(fn, p) ==
    {i \in 1..Len(doc_calls) : doc_calls[i].fn = fn /\ doc_calls[i].page = p}

\* the spans of a page in block, line, span order
RECURSIVE SpansOfLines(_)
SpansOfLines(lines) ==
    IF lines = <<>> THEN <<>> ELSE Head(lines).spans \o SpansOfLines(Tail(lines))

RECURSIVE SpansOfBlocks(_)
SpansOfBlocks(blocks) ==
    IF blocks = <<>> THEN <<>>
    ELSE SpansOfLines(Head(blocks).lines) \o SpansOfBlocks(Tail(blocks))

\* size is the size of the first span of the input page p whose text
\* contains doc_old, or 12 when no span contains it
IsPageSize(p, size) ==
    LET spans == SpansOfBlocks(doc_in.pages[p].blocks)
    IN  \/ \E k \in 1..Len(spans) :
              /\ StrContains(spans[k].text, doc_old)
              /\ \A j \in 1..(k - 1) : ~StrContains(spans[j].text, doc_old)
              /\ size = spans[k].size
        \/ /\ \A k \in 1..Len(spans) : ~StrContains(spans[k].text, doc_old)
           /\ size = 12

TextLength(blocks) == Len(LineText(SpansOfBlocks(blocks)))

RECURSIVE SumLen(_)
SumLen(rects) == IF rects = <<>> THEN 0 ELSE Head(rects).len + SumLen(Tail(rects))

\* C12: on a page with a match the span information is read before any
\* redaction, every matched rectangle is redacted before any text is
\* inserted, and every match, that is every rectangle the search returned,
\* then gets exactly one insertion of the new text, all of them at the size
\* of the first span of the page (in block, line, span order) that contains
\* the search text, or 12 if no span does; a page without a match is
\* neither redacted nor written to.
C12_PdfPageSteps ==
    PdfDone =>
        /\ Len(doc_out.pages) = Len(doc_in.pages)
        /\ \A p \in 1..Len(doc_in.pages) :
           \A matches \in {Matches(p)} :
           \A gets \in {CallsOf("get_text", p)} :
           \A annots \in {CallsOf("add_redact_annot", p)} :
           \A applies \in {CallsOf("apply_redactions", p)} :
           \A inserts \in {CallsOf("insert_text", p)} :
              LET before == doc_in.pages[p]
                  after == doc_out.pages[p]
                  n == Len(matches)
              IN  /\ Cardinality(CallsOf("search_for", p)) = 1
                  /\ IF n = 0
                     THEN /\ after = before
                          /\ gets \cup annots \cup applies \cup inserts = {}
                     ELSE /\ Cardinality(gets) = 1
                          /\ Cardinality(applies) = 1
                          /\ \A g \in gets : \A a \in annots \cup applies : g < a
                          /\ \A a \in annots : \A y \in applies : a < y
                          /\ \A y \in applies : \A t \in inserts : y < t
                          /\ \A m \in 1..n :
                                /\ Cardinality({i \in annots :
                                                  doc_calls[i].rect = matches[m]}) = 1
                                /\ Cardinality({i \in inserts :
                                                  doc_calls[i].rect = matches[m]}) = 1
                          /\ Cardinality(annots) = n
                          /\ Cardinality(inserts) = n
                          /\ \A t \in inserts : IsPageSize(p, doc_calls[t].fontsize)
                          /\ TextLength(after.blocks)
                                = TextLength(before.blocks) - SumLen(matches)
                          /\ Len(after.inserts) = Len(before.inserts) + n
                          /\ \A m \in 1..n :
                                LET ins == after.inserts[Len(before.inserts) + m]
                                IN  /\ ins.at = matches[m]
                                    /\ ins.text = doc_new
                                    /\ IsPageSize(p, ins.fontsize)

\* a first page whose two matches lie in spans of sizes 9 and 14, the second
\* of them the first to contain "Bob"; a second page with an image block and
\* a block where no span contains "Bob": one match runs over two spans, one
\* over a hyphen and a line break, which gives it two rectangles
C12_Witness ==
    /\ PdfDone
    /\ doc_old = T_Bob /\ doc_new = T_Carol
    /\ doc_in = PdfFile(<<Page(<<TextBlock(<<Line(<<Span(T_bob, 9)>>),
                                             Line(<<Span(T_callBob, 14)>>)>>)>>),
                          Page(<<ImageBlock, SplitBlock>>)>>)
    /\ Len(doc_out.pages[1].inserts) = 2
    /\ \A m \in 1..2 : doc_out.pages[1].inserts[m].fontsize = 14
    /\ Len(doc_out.pages[2].inserts) = 3
    /\ \A m \in 1..3 : doc_out.pages[2].inserts[m].fontsize = 12
    /\ doc_out.pages[2].blocks[2].lines
          = <<Line(<<Span(<<>>, 11), Span(<<>>, 13)>>),
              Line(<<Span(T_call, 8)>>),
              Line(<<Span(<<"-">>, 11)>>),
              Line(<<Span(<<>>, 13)>>)>>

(***************************************************************************)
(* What stays on disk                                                      *)
(***************************************************************************)

\* the replacer invoked for the request raised
Raised(r) == \E i \in 1..Len(calls[r]) : calls[r][i].outcome = "raised"

Removals(r) == {op \in fslog : op.req = r /\ op.op \in {"remove", "remove_failed"}}

\* remove_files ran for the request and its removal of the input file raised
InputRemovalFailed(r) ==
    /\ FsOp(r, "remove_failed", loc[r].file_path) \in fslog
    /\ FsOp(r, "remove", loc[r].file_path) \notin fslog

\* C13: once the replacer has raised, no cleanup is scheduled and nothing is
\* removed: the saved upload, and whatever the replacer had written, is on
\* disk in every later state.  On the success path the cleanup is scheduled
\* and, unless its removal of the input file fails, takes the input file
\* away; on the unsupported-extension path, which a request reaches with
\* its upload saved whole, the handler removes the saved input file before
\* it answers 400, and answers 500 if that removal fails.
C13_FailureLeavesUpload ==
    \A r \in Reqs :
        /\ Raised(r) =>
              /\ Finished(r)
              /\ resp[r][1].status = 500
              /\ timer[r] = "none"
              /\ Removals(r) = {}
              /\ Exists(disk, loc[r].file_path)
              /\ calls[r][1].output_path # loc[r].file_path
                    => disk[loc[r].file_path] = req[r].content
              /\ \A op \in fslog :
                    (op.req = r /\ op.op = "write") => Exists(disk, op.path)
        /\ (pc[r] = "scheduled" \/ Succeeded(r)) =>
              /\ timer[r] \in {"armed", "fired"}
              /\ (timer[r] = "fired" /\ ~InputRemovalFailed(r))
                    => /\ ~Exists(disk, loc[r].file_path)
                       /\ FsOp(r, "remove", loc[r].file_path) \in fslog
        /\ (Finished(r) /\ WroteFile(r) /\ SanitizedExt(r) \notin Supported) =>
              /\ timer[r] = "none"
              /\ \/ \E op \in Removals(r) : op.path = loc[r].file_path
                 \/ /\ Exists(disk, loc[r].file_path)
                    /\ disk[loc[r].file_path] = PartialFile
              /\ IF FsOp(r, "remove", loc[r].file_path) \in fslog
                 THEN ~Exists(disk, loc[r].file_path) /\ resp[r][1].status = 400
                 ELSE Exists(disk, loc[r].file_path) /\ resp[r][1].status = 500

\* one request whose writer raised with a part of the output written, both
\* of its files still on disk after the response was delivered, next to a
\* successful request whose cleanup has removed its input file
C13_Witness ==
    \E r1, r2 \in Reqs :
        /\ r1 # r2
        /\ Raised(r1) /\ pc[r1] = "done"
        /\ calls[r1][1].output_path # loc[r1].file_path
        /\ Exists(disk, loc[r1].file_path)
        /\ Exists(disk, calls[r1][1].output_path)
        /\ disk[calls[r1][1].output_path] = PartialFile
        /\ Succeeded(r2) /\ timer[r2] = "fired"
        /\ ~Exists(disk, loc[r2].file_path)

\* C14: the timed cleanup removes the input file first and the output file
\* second in one guarded block.  When the removal of the input file fails,
\* both files stay on disk and the removal of the output file is not
\* attempted; otherwise the input file is gone and the removal of the output
\* file was attempted.  Whatever happens, the response of the request is the
\* one send_file built: returned already, or returned next, unchanged.
C14_CleanupStopsAtFirstFailure ==
    \A r \in Reqs :
        timer[r] = "fired" =>
            LET file_path == loc[r].file_path
                output_path == loc[r].output_path
            IN  /\ pc[r] \in {"scheduled", "returned", "done"}
                /\ loc[r].response.kind = "attachment"
                /\ loc[r].response.status = 200
                /\ resp[r] = IF pc[r] = "scheduled" THEN <<>> ELSE <<loc[r].response>>
                /\ \E op \in Removals(r) : op.path = file_path
                /\ IF InputRemovalFailed(r)
                   THEN /\ Exists(disk, file_path)
                        /\ Exists(disk, output_path)
                        /\ disk[output_path] = loc[r].response.body
                        /\ FsOp(r, "remove", output_path) \notin fslog
                        /\ output_path # file_path
                              => \A op \in Removals(r) : op.path # output_path
                   ELSE /\ ~Exists(disk, file_path)
                        /\ \E op \in Removals(r) : op.path = output_path
                        /\ FsOp(r, "remove", output_path) \in fslog
                              => ~Exists(disk, output_path)
                        /\ FsOp(r, "remove", output_path) \notin fslog
                              => (output_path = file_path \/ Exists(disk, output_path))

\* a delivered request whose cleanup failed on the input file: the output
\* file, a file of its own, is still on disk
C14_Witness ==
    \E r \in Reqs :
        /\ pc[r] = "done" /\ timer[r] = "fired"
        /\ InputRemovalFailed(r)
        /\ loc[r].output_path # loc[r].file_path
        /\ Exists(disk, loc[r].output_path)
        /\ Exists(disk, loc[r].file_path)

====
